---- MODULE Spec2Model ----
(***************************************************************************)
(* markdown-spacer: the core formatter (src/src/core/formatter.py).        *)
(*                                                                         *)
(* A text is a sequence of characters and a character is a string.  An     *)
(* ASCII character is the one-character string of itself, except the       *)
(* backtick, written "tick".  Characters outside ASCII have names: "zh" is *)
(* a CJK ideograph (U+4E2D), "nian", "yue" and "ri" are U+5E74, U+6708 and *)
(* U+65E5, all inside the range U+4E00..U+9FA5 the patterns call Chinese.  *)
(***************************************************************************)
EXTENDS Integers, Sequences, FiniteSets, TLC

VARIABLES
    content,            \* format_content: the document passed in
    lines,              \* format_content: content.split("\n")
    idx,                \* format_content: number of lines already handled
    in_code_block,      \* format_content: the code fence flag
    in_math_block,      \* format_content: the math fence flag
    formatted_lines,    \* format_content: the output lines so far
    result,             \* format_content: the returned document
    pc,                 \* position of the call being modelled
    bold_quotes,        \* MarkdownFormatter.bold_quotes, set by __init__
    text,               \* content_spacing_fix: the working text
    span,               \* content_spacing_fix: the text passed in
    protected_content,  \* content_spacing_fix: the placeholder table
    _custom_rules,      \* MarkdownFormatter._custom_rules, set by __init__
    stdin,              \* what sys.stdin.read() returns
    stdout,             \* sys.stdout: the writes made so far, in order
    _cached_patterns,   \* MarkdownFormatter._cached_patterns, a class attribute
    threads,            \* the threads inside _get_patterns
    calls,              \* the format_content calls running side by side
    files,              \* the file system: path -> content
    normal_threshold,   \* SmartFileProcessor.normal_threshold
    chunked_threshold,  \* SmartFileProcessor.chunked_threshold
    chunk_size,         \* ChunkedFileProcessor.chunk_size
    code_block_handler, \* StreamingFileProcessor.code_block_handler
    job,                \* locals of the batch run or of the processor's caller
    frame               \* locals of the chunked or streaming method running

\* What lies outside a single format_content or content_spacing_fix call,
\* standard output excepted.
\* The file system and the file processors.
file_state == <<files, normal_threshold, chunked_threshold, chunk_size,
                code_block_handler, job, frame>>

outside == <<_custom_rules, stdin, _cached_patterns, threads, calls,
             file_state>>

vars == <<content, lines, idx, in_code_block, in_math_block, formatted_lines,
          result, pc, bold_quotes, text, span, protected_content, stdout,
          outside>>

(***************************************************************************)
(* Character classes of Python's re module on str patterns.                *)
(***************************************************************************)
Lower == {"a", "b", "c", "d", "e", "f", "g", "h", "i", "j", "k", "l", "m",
          "n", "o", "p", "q", "r", "s", "t", "u", "v", "w", "x", "y", "z"}

Upper == {"A", "B", "C", "D", "E", "F", "G", "H", "I", "J", "K", "L", "M",
          "N", "O", "P", "Q", "R", "S", "T", "U", "V", "W", "X", "Y", "Z"}

Digit == {"0", "1", "2", "3", "4", "5", "6", "7", "8", "9"}

Chinese == {"zh", "nian", "yue", "ri"}

Latin == Lower \cup Upper

Alnum == Latin \cup Digit

WordChar == Alnum \cup Chinese \cup {"_"}

Whitespace == {" ", "\t", "\n"}

(***************************************************************************)
(* Sequence helpers: the primitives the regular expressions are read with. *)
(***************************************************************************)
At(s, i) == IF i >= 1 /\ i <= Len(s) THEN s[i] ELSE ""

IsAt(s, i, lit) == \A k \in 1..Len(lit) : At(s, i + k - 1) = lit[k]

MinOf(S) == CHOOSE m \in S : \A n \in S : m <= n

\* Last index of the maximal run of characters of class C that starts at i
\* (i - 1 when the run is empty): a greedy C*.
RunEnd(s, i, C) ==
    LET stop == {k \in i..Len(s) : s[k] \notin C}
    IN  IF stop = {} THEN (IF i > Len(s) THEN i - 1 ELSE Len(s))
        ELSE MinOf(stop) - 1

\* The same for a negated class [^X]*.
RunEndNot(s, i, X) ==
    LET stop == {k \in i..Len(s) : s[k] \in X}
    IN  IF stop = {} THEN (IF i > Len(s) THEN i - 1 ELSE Len(s))
        ELSE MinOf(stop) - 1

Slice(s, i, j) == IF j < i THEN <<>> ELSE SubSeq(s, i, j)

\* F(v), with v computed once before F is applied to it.
Bind(v, F(_)) == CHOOSE r \in {F(x) : x \in {v}} : TRUE

\* Whether lit occurs in s.
Contains(s, lit) == \E i \in 1..Len(s) : IsAt(s, i, lit)

RECURSIVE Concat(_)
Concat(ss) == IF ss = <<>> THEN <<>> ELSE Head(ss) \o Concat(Tail(ss))

(***************************************************************************)
(* The protected-span vault: _protect_special_content and                  *)
(* _restore_special_content.  The table protected_content is a dict that   *)
(* only grows, one key per call of _create_placeholder, so it is modelled  *)
(* as the sequence of its values in insertion order: entry k + 1 is the    *)
(* value of the key PlaceholderId(k).                                      *)
(***************************************************************************)
DigitChars == <<"0", "1", "2", "3", "4", "5", "6", "7", "8", "9">>

\* str(n) of a natural number.
RECURSIVE DecStr(_)
DecStr(n) ==
    IF n < 10 THEN <<DigitChars[n + 1]>>
    ELSE DecStr(n \div 10) \o <<DigitChars[(n % 10) + 1]>>

\* f"__PROTECTED_{n}__"
PlaceholderId(n) ==
    <<"_", "_", "P", "R", "O", "T", "E", "C", "T", "E", "D", "_">>
        \o DecStr(n) \o <<"_", "_">>

_create_placeholder(matched, table) ==
    [id |-> PlaceholderId(Len(table)), table |-> Append(table, matched)]

\* Each matcher gives the last index of the match of its pattern that starts
\* at i, or 0 when the pattern does not match there.

\* (\$\$[^$]*\$\$)
protect_block_math(s, i) ==
    LET j == RunEndNot(s, i + 2, {"$"})
    IN  IF IsAt(s, i, <<"$", "$">>) /\ IsAt(s, j + 1, <<"$", "$">>)
        THEN j + 2 ELSE 0

\* (\$[^$\n]*\$)
protect_inline_math(s, i) ==
    LET j == RunEndNot(s, i + 1, {"$", "\n"})
    IN  IF At(s, i) = "$" /\ At(s, j + 1) = "$" THEN j + 1 ELSE 0

\* (`[^`]*`)
protect_inline_code(s, i) ==
    LET j == RunEndNot(s, i + 1, {"tick"})
    IN  IF At(s, i) = "tick" /\ At(s, j + 1) = "tick" THEN j + 1 ELSE 0

\* (\[[^\]]*\]\([^)]*\))
protect_link(s, i) ==
    LET j == RunEndNot(s, i + 1, {"]"})
        k == RunEndNot(s, j + 3, {")"})
    IN  IF At(s, i) = "[" /\ IsAt(s, j + 1, <<"]", "(">>) /\ At(s, k + 1) = ")"
        THEN k + 1 ELSE 0

\* (!\[[^\]]*\]\([^)]*\))
protect_image(s, i) ==
    IF At(s, i) = "!" THEN protect_link(s, i + 1) ELSE 0

\* (<[^>]*>[^<]*</[^>]*>)
protect_html_element(s, i) ==
    LET j == RunEndNot(s, i + 1, {">"})
        k == RunEndNot(s, j + 2, {"<"})
        m == RunEndNot(s, k + 3, {">"})
    IN  IF /\ At(s, i) = "<"
           /\ At(s, j + 1) = ">"
           /\ IsAt(s, k + 1, <<"<", "/">>)
           /\ At(s, m + 1) = ">"
        THEN m + 1 ELSE 0

\* (<[^>]*/>)
protect_html_self_closing(s, i) ==
    LET j == RunEndNot(s, i + 1, {">"})
    IN  IF At(s, i) = "<" /\ At(s, j + 1) = ">" /\ j > i /\ At(s, j) = "/"
        THEN j + 1 ELSE 0

\* (<[^>]*>)
protect_html_tag(s, i) ==
    LET j == RunEndNot(s, i + 1, {">"})
    IN  IF At(s, i) = "<" /\ At(s, j + 1) = ">" THEN j + 1 ELSE 0

\* The alternation (txt|py|toml|yaml|yml|json|md|markdown), in its order.
FilenameExtensions ==
    << <<"t", "x", "t">>, <<"p", "y">>, <<"t", "o", "m", "l">>,
       <<"y", "a", "m", "l">>, <<"y", "m", "l">>, <<"j", "s", "o", "n">>,
       <<"m", "d">>, <<"m", "a", "r", "k", "d", "o", "w", "n">> >>

\* Length of the first alternative of alts that occurs at i, or 0.
FirstAlt(s, i, alts) ==
    LET hit == {n \in 1..Len(alts) : IsAt(s, i, alts[n])}
    IN  IF hit = {} THEN 0 ELSE Len(alts[MinOf(hit)])

\* ([\w\-]+\.(txt|py|toml|yaml|yml|json|md|markdown))
protect_filename(s, i) ==
    LET j == RunEnd(s, i, WordChar \cup {"-"})
        n == FirstAlt(s, j + 2, FilenameExtensions)
    IN  IF j >= i /\ At(s, j + 1) = "." /\ n > 0 THEN j + 1 + n ELSE 0

VaultMatch(rule, s, i) ==
    CASE rule = "block_math" -> protect_block_math(s, i)
      [] rule = "inline_math" -> protect_inline_math(s, i)
      [] rule = "inline_code" -> protect_inline_code(s, i)
      [] rule = "link" -> protect_link(s, i)
      [] rule = "image" -> protect_image(s, i)
      [] rule = "html_element" -> protect_html_element(s, i)
      [] rule = "html_self_closing" -> protect_html_self_closing(s, i)
      [] rule = "html_tag" -> protect_html_tag(s, i)
      [] rule = "filename" -> protect_filename(s, i)

\* re.sub(pattern, lambda m: self._create_placeholder(m.group(1), table), s):
\* the matches are found left to right, each search resuming after the last
\* match, and every match gets the next placeholder.
RECURSIVE ProtectFrom(_, _, _, _)
ProtectFrom(rule, s, i, table) ==
    Bind([k \in i..Len(s) |-> VaultMatch(rule, s, k)], LAMBDA ends :
        IF \A k \in i..Len(s) : ends[k] = 0
        THEN [text |-> Slice(s, i, Len(s)), table |-> table]
        ELSE Bind(MinOf({k \in i..Len(s) : ends[k] # 0}), LAMBDA k :
             Bind(_create_placeholder(Slice(s, k, ends[k]), table), LAMBDA p :
             Bind(ProtectFrom(rule, s, ends[k] + 1, p.table), LAMBDA r :
                 [text |-> Slice(s, i, k - 1) \o p.id \o r.text,
                  table |-> r.table]))))

ProtectSub(rule, v) ==
    Bind(v, LAMBDA w : ProtectFrom(rule, w.text, 1, w.table))

_protect_math_formulas(v) == ProtectSub("inline_math", ProtectSub("block_math", v))

_protect_inline_code(v) == ProtectSub("inline_code", v)

_protect_links(v) == ProtectSub("link", v)

_protect_images(v) == ProtectSub("image", v)

_protect_html_tags(v) ==
    ProtectSub("html_tag",
        ProtectSub("html_self_closing", ProtectSub("html_element", v)))

_protect_filenames(v) == ProtectSub("filename", v)

\* Returns the masked text and the table filled by the masking.
_protect_special_content(s, table) ==
    _protect_filenames(_protect_html_tags(_protect_images(_protect_links(
        _protect_inline_code(_protect_math_formulas(
            [text |-> s, table |-> table]))))))

\* Code points of the characters a placeholder is made of: what sorted()
\* compares the keys by.
CharCode(c) ==
    CASE c \in Digit -> 48 + (CHOOSE d \in 0..9 : DigitChars[d + 1] = c)
      [] c = "C" -> 67 [] c = "D" -> 68 [] c = "E" -> 69 [] c = "O" -> 79
      [] c = "P" -> 80 [] c = "R" -> 82 [] c = "T" -> 84 [] c = "_" -> 95

\* a < b for two strings, as Python compares str values.
RECURSIVE StrLess(_, _)
StrLess(a, b) ==
    IF b = <<>> THEN FALSE
    ELSE IF a = <<>> THEN TRUE
    ELSE IF Head(a) = Head(b) THEN StrLess(Tail(a), Tail(b))
    ELSE CharCode(Head(a)) < CharCode(Head(b))

\* sorted(protected_content.keys(), reverse=True), as the numbers n of the
\* keys PlaceholderId(n): keys 0..n-1 ordered by their strings, greatest
\* first.
RECURSIVE InsertDescending(_, _)
InsertDescending(n, order) ==
    IF order = <<>> THEN <<n>>
    ELSE IF StrLess(PlaceholderId(Head(order)), PlaceholderId(n))
         THEN <<n>> \o order
         ELSE <<Head(order)>> \o InsertDescending(n, Tail(order))

RECURSIVE SortedKeysDescending(_)
SortedKeysDescending(n) ==
    IF n = 0 THEN <<>>
    ELSE InsertDescending(n - 1, SortedKeysDescending(n - 1))

\* str.replace(old, new): every non-overlapping occurrence, left to right.
RECURSIVE ReplaceFrom(_, _, _, _)
ReplaceFrom(s, old, new, i) ==
    Bind({k \in i..Len(s) : IsAt(s, k, old)}, LAMBDA starts :
        IF starts = {} THEN Slice(s, i, Len(s))
        ELSE Bind(MinOf(starts), LAMBDA k :
                 Slice(s, i, k - 1) \o new
                     \o ReplaceFrom(s, old, new, k + Len(old))))

StrReplace(s, old, new) ==
    Bind(<<s, old, new>>, LAMBDA a : ReplaceFrom(a[1], a[2], a[3], 1))

RECURSIVE RestoreInOrder(_, _, _)
RestoreInOrder(s, table, order) ==
    IF order = <<>> THEN s
    ELSE Bind(StrReplace(s, PlaceholderId(Head(order)), table[Head(order) + 1]),
              LAMBDA t : RestoreInOrder(t, table, Tail(order)))

_restore_special_content(s, table) ==
    Bind(<<s, table, SortedKeysDescending(Len(table))>>,
         LAMBDA a : RestoreInOrder(a[1], a[2], a[3]))

(***************************************************************************)
(* The rules of content_spacing_fix.  A rule gives, for a text s and a     *)
(* start index i, <<e, r>> when its pattern matches s from i to e and the  *)
(* match is to be replaced by r, and <<>> when it does not match at i.     *)
(* Every pattern here is deterministic once its start is fixed: each       *)
(* greedy run is followed by a character outside the run's class, so a     *)
(* shorter run never lets the rest match.                                  *)
(***************************************************************************)
NoMatch == <<>>

\* (A)(B) -> \1 \2
PairRule(s, i, A, B) ==
    IF At(s, i) \in A /\ At(s, i + 1) \in B
    THEN <<i + 1, <<s[i], " ", s[i + 1]>> >> ELSE NoMatch

chinese_english(s, i) == PairRule(s, i, Chinese, Latin)

english_chinese(s, i) == PairRule(s, i, Latin, Chinese)

chinese_number(s, i) == PairRule(s, i, Chinese, Digit)

number_chinese(s, i) == PairRule(s, i, Digit, Chinese)

\* The class [>=<...] of the lookahead of number_english: "le", "ge", "fweq"
\* and "ne" are U+2264, U+2265, U+FF1D and U+2260.
ComparisonAhead == {">", "=", "<", "le", "ge", "fweq", "ne"}

\* (\d)([a-zA-Z])(?!\s*[>=<...])
number_english(s, i) ==
    IF At(s, RunEnd(s, i + 2, Whitespace) + 1) \in ComparisonAhead
    THEN NoMatch ELSE PairRule(s, i, Digit, Latin)

english_number(s, i) == PairRule(s, i, Latin, Digit)

Operand == Chinese \cup Alnum

\* ([\u4e00-\u9fa5a-zA-Z0-9])([+/*=<>])([\u4e00-\u9fa5a-zA-Z0-9]) -> \1 \2 \3
math_symbols(s, i) ==
    IF /\ At(s, i) \in Operand
       /\ At(s, i + 1) \in {"+", "/", "*", "=", "<", ">"}
       /\ At(s, i + 2) \in Operand
    THEN <<i + 2, <<s[i], " ", s[i + 1], " ", s[i + 2]>> >> ELSE NoMatch

\* (X)(-)(X)(?!\d)(?!\w*-) -> \1 \2 \3
minus_symbol(s, i) ==
    IF /\ At(s, i) \in Operand
       /\ At(s, i + 1) = "-"
       /\ At(s, i + 2) \in Operand
       /\ At(s, i + 3) \notin Digit
       /\ At(s, RunEnd(s, i + 3, WordChar) + 1) # "-"
    THEN <<i + 2, <<s[i], " ", "-", " ", s[i + 2]>> >> ELSE NoMatch

\* ([,\.!?;:])([A-Za-z\u4e00-\u9fa5])(?!\w*\.\w+) -> \1 \2
punctuation_after(s, i) ==
    LET j == RunEnd(s, i + 2, WordChar)
    IN  IF At(s, j + 1) = "." /\ At(s, j + 2) \in WordChar
        THEN NoMatch
        ELSE PairRule(s, i, {",", ".", "!", "?", ";", ":"}, Latin \cup Chinese)

rparen_after(s, i) == PairRule(s, i, {")"}, Latin \cup Chinese)

\* ([\u4e00-\u9fa5])\s*/\s*([\u4e00-\u9fa5a-zA-Z]) -> \1 / \2
chinese_slash(s, i) ==
    LET j == RunEnd(s, i + 1, Whitespace)
        k == RunEnd(s, j + 2, Whitespace)
    IN  IF /\ At(s, i) \in Chinese
           /\ At(s, j + 1) = "/"
           /\ At(s, k + 1) \in Chinese \cup Latin
        THEN <<k + 1, <<s[i], " ", "/", " ", s[k + 1]>> >> ELSE NoMatch

\* ([\u4e00-\u9fa5])(\d+) -> \1 \2
number_chinese_priority(s, i) ==
    LET j == RunEnd(s, i + 1, Digit)
    IN  IF At(s, i) \in Chinese /\ j > i
        THEN <<j, <<s[i], " ">> \o Slice(s, i + 1, j)>> ELSE NoMatch

\* re.sub(r" +", " ", text)
merge_spaces(s, i) ==
    IF At(s, i) = " " THEN <<RunEnd(s, i, {" "}), <<" ">> >> ELSE NoMatch

\* The alternation (>=|<=|!=|==|>|<|...) in its order: "fwgt", "fwlt" are
\* U+FF1E and U+FF1C.
ComparisonOps ==
    << <<">", "=">>, <<"<", "=">>, <<"!", "=">>, <<"=", "=">>, <<">">>,
       <<"<">>, <<"fwgt">>, <<"fwlt">>, <<"ge">>, <<"le">>, <<"fweq">>,
       <<"ne">> >>

\* The first alternative of alts, in order, that occurs at i and after which
\* Rest matches (Rest(p) is the end of the rest from p, or 0): the match the
\* backtracking search finds.  0 when there is none.
FirstAltWith(s, i, alts, Rest(_)) ==
    LET hit == {n \in 1..Len(alts) :
                    IsAt(s, i, alts[n]) /\ Rest(i + Len(alts[n])) # 0}
    IN  IF hit = {} THEN 0 ELSE MinOf(hit)

\* \s*([0-9]) from p
ComparisonDigit(s, p) ==
    LET j == RunEnd(s, p, Whitespace)
    IN  IF At(s, j + 1) \in Digit THEN j + 1 ELSE 0

\* (>=|<=|...)\s*([0-9]) -> \1 \2
comparison_symbols(s, i) ==
    LET Rest(p) == ComparisonDigit(s, p)
        n == FirstAltWith(s, i, ComparisonOps, Rest)
        e == Rest(i + Len(ComparisonOps[n]))
    IN  IF n = 0 THEN NoMatch
        ELSE <<e, ComparisonOps[n] \o <<" ", s[e]>> >>

\* \s+([0-9]+)\s+([A-Za-z]+) from p
ComparisonUnit(s, p) ==
    LET j == RunEnd(s, p, Whitespace)
        k == RunEnd(s, j + 1, Digit)
        m == RunEnd(s, k + 1, Whitespace)
        q == RunEnd(s, m + 1, Latin)
    IN  IF j >= p /\ k > j /\ m > k /\ q > m THEN q ELSE 0

\* (>=|<=|...)\s+([0-9]+)\s+([A-Za-z]+) -> \1 \2\3
comparison_symbols_fix(s, i) ==
    LET Rest(p) == ComparisonUnit(s, p)
        n == FirstAltWith(s, i, ComparisonOps, Rest)
        p == i + Len(ComparisonOps[n])
        j == RunEnd(s, p, Whitespace)
        k == RunEnd(s, j + 1, Digit)
        m == RunEnd(s, k + 1, Whitespace)
    IN  IF n = 0 THEN NoMatch
        ELSE <<Rest(p), ComparisonOps[n] \o <<" ">> \o Slice(s, j + 1, k)
                            \o Slice(s, m + 1, Rest(p))>>

\* End of the greedy (?:\.\d+)* that starts after index k.
RECURSIVE DotGroups(_, _)
DotGroups(s, k) ==
    IF At(s, k + 1) = "." /\ At(s, k + 2) \in Digit
    THEN DotGroups(s, RunEnd(s, k + 2, Digit)) ELSE k

\* v (\d+(?:\.\d+)+(?:-[a-zA-Z0-9]+)?) -> v\1
version_number(s, i) ==
    LET j == RunEnd(s, i + 2, Digit)
        k == DotGroups(s, j)
        m == RunEnd(s, k + 2, Alnum)
        e == IF At(s, k + 1) = "-" /\ m > k + 1 THEN m ELSE k
    IN  IF IsAt(s, i, <<"v", " ">>) /\ j > i + 1 /\ k > j
        THEN <<e, <<"v">> \o Slice(s, i + 2, e)>> ELSE NoMatch

\* v(\d+(?:\.\d+)+) - ([a-zA-Z0-9]+) -> v\1-\2
version_hyphen(s, i) ==
    LET j == RunEnd(s, i + 1, Digit)
        k == DotGroups(s, j)
        m == RunEnd(s, k + 4, Alnum)
    IN  IF /\ At(s, i) = "v" /\ j > i /\ k > j
           /\ IsAt(s, k + 1, <<" ", "-", " ">>) /\ m > k + 3
        THEN <<m, Slice(s, i, k) \o <<"-">> \o Slice(s, k + 4, m)>>
        ELSE NoMatch

\* ([A-Z]{2,}) - ([A-Z0-9]+) - ([A-Z0-9]+) -> \1-\2-\3
tech_abbr_multi(s, i) ==
    LET j == RunEnd(s, i, Upper)
        k == RunEnd(s, j + 4, Upper \cup Digit)
        m == RunEnd(s, k + 4, Upper \cup Digit)
    IN  IF /\ j > i
           /\ IsAt(s, j + 1, <<" ", "-", " ">>) /\ k > j + 3
           /\ IsAt(s, k + 1, <<" ", "-", " ">>) /\ m > k + 3
        THEN <<m, Slice(s, i, j) \o <<"-">> \o Slice(s, j + 4, k) \o <<"-">>
                    \o Slice(s, k + 4, m)>>
        ELSE NoMatch

\* ([A-Z]{2,}) - ([A-Z0-9]+) -> \1-\2
tech_abbr(s, i) ==
    LET j == RunEnd(s, i, Upper)
        k == RunEnd(s, j + 4, Upper \cup Digit)
    IN  IF j > i /\ IsAt(s, j + 1, <<" ", "-", " ">>) /\ k > j + 3
        THEN <<k, Slice(s, i, j) \o <<"-">> \o Slice(s, j + 4, k)>>
        ELSE NoMatch

\* (flake) (8) -> \1\2
tool_name(s, i) ==
    IF IsAt(s, i, <<"f", "l", "a", "k", "e", " ", "8">>)
    THEN <<i + 6, <<"f", "l", "a", "k", "e", "8">> >> ELSE NoMatch

\* The unit alternation of number_unit, in its order: "degc" is U+2103 and
\* "deg" is U+00B0.
Units ==
    << <<"M", "B">>, <<"G", "B">>, <<"K", "B">>, <<"T", "B">>, <<"B">>,
       <<"degc">>, <<"deg", "C">>, <<"deg", "F">>, <<"%">>, <<"k", "m">>,
       <<"c", "m">>, <<"m", "m">>, <<"m">>, <<"k", "g">>, <<"g">>,
       <<"m", "g">>, <<"s">>, <<"m", "s">>, <<"h">>, <<"d">>, <<"p", "x">>,
       <<"e", "m">>, <<"r", "e", "m">>, <<"p", "t">> >>

\* (\d+) (MB|GB|...|pt) -> \1\2
number_unit(s, i) ==
    LET j == RunEnd(s, i, Digit)
        n == FirstAlt(s, j + 2, Units)
    IN  IF j >= i /\ At(s, j + 1) = " " /\ n > 0
        THEN <<j + 1 + n, Slice(s, i, j) \o Slice(s, j + 2, j + 1 + n)>>
        ELSE NoMatch

ByteUnits == << <<"M", "B">>, <<"G", "B">>, <<"K", "B">>, <<"T", "B">>, <<"B">> >>

\* \s*\+ from p
PlusAfter(s, p) ==
    LET j == RunEnd(s, p, Whitespace)
    IN  IF At(s, j + 1) = "+" THEN j + 1 ELSE 0

\* (\d+)(MB|GB|KB|TB|B)\s*\+ -> \1\2+
number_unit_plus(s, i) ==
    LET j == RunEnd(s, i, Digit)
        Rest(p) == PlusAfter(s, p)
        n == FirstAltWith(s, j + 1, ByteUnits, Rest)
    IN  IF j >= i /\ n > 0
        THEN <<Rest(j + 1 + Len(ByteUnits[n])),
               Slice(s, i, j) \o ByteUnits[n] \o <<"+">> >>
        ELSE NoMatch

\* ([a-zA-Z0-9]+) - ([a-zA-Z0-9]+) -> \1-\2
english_hyphen(s, i) ==
    LET j == RunEnd(s, i, Alnum)
        k == RunEnd(s, j + 4, Alnum)
    IN  IF j >= i /\ IsAt(s, j + 1, <<" ", "-", " ">>) /\ k > j + 3
        THEN <<k, Slice(s, i, j) \o <<"-">> \o Slice(s, j + 4, k)>>
        ELSE NoMatch

\* ([a-zA-Z0-9]+) $ -> \1   ($ is the end, or just before a final newline)
trailing_space(s, i) ==
    LET j == RunEnd(s, i, Alnum)
    IN  IF /\ j >= i /\ At(s, j + 1) = " "
           /\ \/ j + 1 = Len(s)
              \/ j + 2 = Len(s) /\ s[j + 2] = "\n"
        THEN <<j + 1, Slice(s, i, j)>> ELSE NoMatch

\* (\d{1,2}) X from p, X a literal: the end of the digits, or 0
DayOrMonth(s, p, lit) ==
    LET k == RunEnd(s, p, Digit)
    IN  IF k >= p /\ k <= p + 1 /\ IsAt(s, k + 1, lit) THEN k ELSE 0

\* (\d{1,2}) yue (\d{1,2}) ri -> \1yue\2ri
date_format_short(s, i) ==
    LET k == DayOrMonth(s, i, <<" ", "yue", " ">>)
        m == DayOrMonth(s, k + 4, <<" ", "ri">>)
    IN  IF k > 0 /\ m > 0
        THEN <<m + 2, Slice(s, i, k) \o <<"yue">> \o Slice(s, k + 4, m)
                        \o <<"ri">> >>
        ELSE NoMatch

\* (\d{4}) nian (\d{1,2}) yue (\d{1,2}) ri -> \1nian\2yue\3ri
date_format(s, i) ==
    LET rest == date_format_short(s, i + 7)
    IN  IF /\ \A d \in 0..3 : At(s, i + d) \in Digit
           /\ IsAt(s, i + 4, <<" ", "nian", " ">>)
           /\ rest # NoMatch
        THEN <<rest[1], Slice(s, i, i + 3) \o <<"nian">> \o rest[2]>>
        ELSE NoMatch

\* (\w+) \. ([a-zA-Z0-9]+) -> \1.\2
file_extension(s, i) ==
    LET j == RunEnd(s, i, WordChar)
        k == RunEnd(s, j + 4, Alnum)
    IN  IF j >= i /\ IsAt(s, j + 1, <<" ", ".", " ">>) /\ k > j + 3
        THEN <<k, Slice(s, i, j) \o <<".">> \o Slice(s, j + 4, k)>>
        ELSE NoMatch

NonSpace(c) == c # "" /\ c \notin Whitespace

\* ([^\s])\s*SEP\s*([^\s]) -> \1SEP\2, SEP being / or \
SeparatorRule(s, i, sep) ==
    LET j == RunEnd(s, i + 1, Whitespace)
        k == RunEnd(s, j + 2, Whitespace)
    IN  IF NonSpace(At(s, i)) /\ At(s, j + 1) = sep /\ NonSpace(At(s, k + 1))
        THEN <<k + 1, <<s[i], sep, s[k + 1]>> >> ELSE NoMatch

unix_path(s, i) == SeparatorRule(s, i, "/")

backslash_path(s, i) == SeparatorRule(s, i, "\\")

\* ([A-Z]:)\s*\\\s*([^\s]) -> \1\\\2
windows_drive(s, i) ==
    LET j == RunEnd(s, i + 2, Whitespace)
        k == RunEnd(s, j + 2, Whitespace)
    IN  IF /\ At(s, i) \in Upper /\ At(s, i + 1) = ":"
           /\ At(s, j + 1) = "\\" /\ NonSpace(At(s, k + 1))
        THEN <<k + 1, <<s[i], ":", "\\", s[k + 1]>> >> ELSE NoMatch

\* ([\w\-/]+)\s+\.\s+([a-zA-Z0-9]+) -> \1.\2
path_file_extension(s, i) ==
    LET j == RunEnd(s, i, WordChar \cup {"-", "/"})
        k == RunEnd(s, j + 1, Whitespace)
        m == RunEnd(s, k + 2, Whitespace)
        q == RunEnd(s, m + 1, Alnum)
    IN  IF j >= i /\ k > j /\ At(s, k + 1) = "." /\ m > k + 1 /\ q > m
        THEN <<q, Slice(s, i, j) \o <<".">> \o Slice(s, m + 1, q)>>
        ELSE NoMatch

\* \.\s+([a-zA-Z0-9]+) -> .\1
dot_space(s, i) ==
    LET j == RunEnd(s, i + 1, Whitespace)
        k == RunEnd(s, j + 1, Alnum)
    IN  IF At(s, i) = "." /\ j > i /\ k > j
        THEN <<k, <<".">> \o Slice(s, j + 1, k)>> ELSE NoMatch

path_keywords ==
    << <<"s", "r", "c">>, <<"d", "o", "c", "s">>,
       <<"c", "o", "n", "f", "i", "g">>, <<"b", "i", "n">>, <<"u", "s", "r">>,
       <<"l", "o", "c", "a", "l">>, <<"h", "o", "m", "e">>, <<"e", "t", "c">>,
       <<"v", "a", "r">>, <<"t", "m", "p">>, <<"c", "o", "r", "e">>,
       <<"u", "t", "i", "l", "s">>, <<"h", "e", "l", "p", "e", "r", "s">> >>

has_path_features(s) ==
    \/ \E i \in 1..Len(s) :
          s[i] = "." /\ At(s, RunEnd(s, i + 1, Whitespace) + 1) \in WordChar
    \/ \E n \in 1..Len(path_keywords) : Contains(s, path_keywords[n])
    \/ \E i \in 1..Len(s) :
          /\ s[i] \in Upper /\ At(s, i + 1) = ":"
          /\ At(s, RunEnd(s, i + 2, Whitespace) + 1) = "\\"

\* Characters after which _fix_chinese_quotes_bold adds no space: U+FF0C,
\* U+3002, U+FF01, U+FF1F, U+FF1B, U+FF1A.
SentencePunctuation ==
    {"fwcomma", "ideostop", "fwexcl", "fwquest", "fwsemi", "fwcolon"}

NeedsSpace(c) == NonSpace(c) /\ c \notin SentencePunctuation

\* replace_quotes over "([^"]*)": the match becomes **\1**, with a space
\* before (after) it when the character before (after) the match in the
\* text exists and is neither whitespace nor sentence punctuation.
chinese_quotes_bold(s, i) ==
    LET j == RunEndNot(s, i + 1, {"\""})
    IN  IF At(s, i) = "\"" /\ At(s, j + 1) = "\""
        THEN <<j + 1,
               (IF NeedsSpace(At(s, i - 1)) THEN <<" ">> ELSE <<>>)
                   \o <<"*", "*">> \o Slice(s, i + 1, j) \o <<"*", "*">>
                   \o (IF NeedsSpace(At(s, j + 2)) THEN <<" ">> ELSE <<>>)>>
        ELSE NoMatch

RuleAt(rule, s, i) ==
    CASE rule = "chinese_english" -> chinese_english(s, i)
      [] rule = "english_chinese" -> english_chinese(s, i)
      [] rule = "chinese_number" -> chinese_number(s, i)
      [] rule = "number_chinese" -> number_chinese(s, i)
      [] rule = "number_english" -> number_english(s, i)
      [] rule = "english_number" -> english_number(s, i)
      [] rule = "math_symbols" -> math_symbols(s, i)
      [] rule = "minus_symbol" -> minus_symbol(s, i)
      [] rule = "punctuation_after" -> punctuation_after(s, i)
      [] rule = "rparen_after" -> rparen_after(s, i)
      [] rule = "chinese_slash" -> chinese_slash(s, i)
      [] rule = "number_chinese_priority" -> number_chinese_priority(s, i)
      [] rule = "merge_spaces" -> merge_spaces(s, i)
      [] rule = "comparison_symbols" -> comparison_symbols(s, i)
      [] rule = "comparison_symbols_fix" -> comparison_symbols_fix(s, i)
      [] rule = "version_number" -> version_number(s, i)
      [] rule = "version_hyphen" -> version_hyphen(s, i)
      [] rule = "tech_abbr_multi" -> tech_abbr_multi(s, i)
      [] rule = "tech_abbr" -> tech_abbr(s, i)
      [] rule = "tool_name" -> tool_name(s, i)
      [] rule = "number_unit" -> number_unit(s, i)
      [] rule = "number_unit_plus" -> number_unit_plus(s, i)
      [] rule = "english_hyphen" -> english_hyphen(s, i)
      [] rule = "trailing_space" -> trailing_space(s, i)
      [] rule = "date_format" -> date_format(s, i)
      [] rule = "date_format_short" -> date_format_short(s, i)
      [] rule = "file_extension" -> file_extension(s, i)
      [] rule = "unix_path" -> unix_path(s, i)
      [] rule = "windows_drive" -> windows_drive(s, i)
      [] rule = "backslash_path" -> backslash_path(s, i)
      [] rule = "path_file_extension" -> path_file_extension(s, i)
      [] rule = "dot_space" -> dot_space(s, i)
      [] rule = "chinese_quotes_bold" -> chinese_quotes_bold(s, i)

\* pattern.sub(repl, s): the matches are found left to right, each search
\* resuming after the last match; what no match covers is copied.
RECURSIVE SubFrom(_, _, _)
SubFrom(rule, s, i) ==
    Bind([k \in i..Len(s) |-> RuleAt(rule, s, k)], LAMBDA ms :
        IF \A k \in i..Len(s) : ms[k] = NoMatch THEN Slice(s, i, Len(s))
        ELSE Bind(MinOf({k \in i..Len(s) : ms[k] # NoMatch}), LAMBDA k :
                 Slice(s, i, k - 1) \o ms[k][2]
                     \o SubFrom(rule, s, ms[k][1] + 1)))

Sub(rule, s) == Bind(s, LAMBDA t : SubFrom(rule, t, 1))

\* Sub over a list of rules, first to last.
RECURSIVE SubAll(_, _)
SubAll(rules, s) ==
    IF rules = <<>> THEN s
    ELSE Bind(Sub(Head(rules), s), LAMBDA t : SubAll(Tail(rules), t))

(***************************************************************************)
(* content_spacing_fix and the passes it is made of.                       *)
(***************************************************************************)
_fix_comparison_symbols(s) ==
    SubAll(<<"comparison_symbols", "comparison_symbols_fix">>, s)

_fix_technical_terms(s) ==
    SubAll(<<"version_number", "version_hyphen", "tech_abbr_multi",
             "tech_abbr", "tool_name", "number_unit", "number_unit_plus",
             "english_hyphen", "trailing_space">>, s)

\* A date cleanup that does nothing.
_fix_date_format_skipped(s) == s

_fix_date_format(s) == SubAll(<<"date_format", "date_format_short">>, s)

_fix_file_paths(s) ==
    Bind(Sub("file_extension", s), LAMBDA t1 :
    Bind(IF has_path_features(t1)
         THEN SubAll(<<"unix_path", "windows_drive", "backslash_path">>, t1)
         ELSE t1, LAMBDA t2 :
    Bind(Sub("path_file_extension", t2), LAMBDA t3 :
        IF Contains(t3, <<"/">>) \/ Contains(t3, <<"\\">>)
        THEN Sub("dot_space", t3) ELSE t3)))

_apply_business_rules(s) ==
    _fix_file_paths(_fix_date_format(_fix_technical_terms(
        _fix_comparison_symbols(s))))

_fix_chinese_quotes_bold(s) ==
    Bind(s, LAMBDA t :
        IF At(t, 1) = "\"" THEN t ELSE Sub("chinese_quotes_bold", t))

\* The insertion rules without the one for a Latin letter before a Chinese
\* character.
spacing_rules_one_way(s) ==
    SubAll(<<"chinese_english", "chinese_number", "number_chinese",
             "number_english", "english_number", "math_symbols",
             "minus_symbol", "punctuation_after", "rparen_after",
             "chinese_slash", "number_chinese_priority", "merge_spaces">>, s)

\* Lines 266-297 of content_spacing_fix: the insertion rules, then the merge
\* of runs of spaces.
spacing_rules(s) ==
    SubAll(<<"chinese_english", "english_chinese", "chinese_number",
             "number_chinese", "number_english", "english_number",
             "math_symbols", "minus_symbol", "punctuation_after",
             "rparen_after", "chinese_slash", "number_chinese_priority",
             "merge_spaces">>, s)

\* What content_spacing_fix does between masking and restoring.
rewrite_masked(s, bold) ==
    Bind(_apply_business_rules(spacing_rules(s)), LAMBDA t :
        IF bold THEN _fix_chinese_quotes_bold(t) ELSE t)

content_spacing_fix(s, bold) ==
    Bind(_protect_special_content(s, <<>>), LAMBDA v :
        _restore_special_content(rewrite_masked(v.text, bold), v.table))

(***************************************************************************)
(* Lines: str.strip, str.split, str.join, the classifiers and extractors.  *)
(***************************************************************************)
\* str.lstrip()
LStrip(s) == Slice(s, RunEnd(s, 1, Whitespace) + 1, Len(s))

\* str.rstrip()
RStrip(s) ==
    LET keep == {k \in 1..Len(s) : s[k] \notin Whitespace}
    IN  IF keep = {} THEN <<>>
        ELSE Slice(s, 1, CHOOSE m \in keep : \A n \in keep : n <= m)

\* str.strip()
Strip(s) == LStrip(RStrip(s))

StartsWith(s, lit) == IsAt(s, 1, lit)

Fence == <<"tick", "tick", "tick">>

MathFence == <<"$", "$">>

\* s.split(sep) for a one-character separator.
RECURSIVE Split(_, _)
Split(s, sep) ==
    LET j == RunEndNot(s, 1, {sep})
    IN  IF j = Len(s) THEN <<s>>
        ELSE <<Slice(s, 1, j)>> \o Split(Slice(s, j + 2, Len(s)), sep)

\* sep.join(parts)
RECURSIVE Join(_, _)
Join(parts, sep) ==
    IF parts = <<>> THEN <<>>
    ELSE IF Len(parts) = 1 THEN parts[1]
    ELSE parts[1] \o sep \o Join(Tail(parts), sep)

_is_protected_content(line) ==
    StartsWith(Strip(line), Fence) \/ StartsWith(Strip(line), MathFence)

\* re.match(r"^[-*_]{3,}$", stripped)
_is_horizontal_rule_line(line) ==
    LET stripped == Strip(line)
    IN  Len(stripped) >= 3 /\ \A k \in 1..Len(stripped) : stripped[k] \in {"-", "*", "_"}

_is_title_line(line) ==
    StartsWith(Strip(line), <<"#">>) /\ ~StartsWith(Strip(line), Fence)

\* re.match(r"^\d+\.\s", stripped)
OrderedMarker(stripped) ==
    LET j == RunEnd(stripped, 1, Digit)
    IN  j >= 1 /\ At(stripped, j + 1) = "." /\ At(stripped, j + 2) \in Whitespace

\* re.match(r"^[-*+]\s*\[[ xX]\]", stripped): the index of the "]", or 0
TaskMarker(stripped) ==
    LET j == RunEnd(stripped, 2, Whitespace)
    IN  IF /\ At(stripped, 1) \in {"-", "*", "+"}
           /\ At(stripped, j + 1) = "["
           /\ At(stripped, j + 2) \in {" ", "x", "X"}
           /\ At(stripped, j + 3) = "]"
        THEN j + 3 ELSE 0

_is_list_line(line) ==
    LET stripped == Strip(line)
    IN  \/ At(stripped, 1) \in {"-", "*", "+"}
        \/ OrderedMarker(stripped)
        \/ TaskMarker(stripped) > 0

_is_quote_line(line) == StartsWith(Strip(line), <<">">>)

\* re.search(r"\|[\s]*[-:]+\s*\|", s)
SeparatorSearch(s) ==
    \E i \in 1..Len(s) :
        LET j == RunEnd(s, i + 1, Whitespace)
            k == RunEnd(s, j + 1, {"-", ":"})
            m == RunEnd(s, k + 1, Whitespace)
        IN  s[i] = "|" /\ k > j /\ At(s, m + 1) = "|"

Count(s, c) == Cardinality({k \in 1..Len(s) : s[k] = c})

_is_table_line(line) ==
    LET stripped == Strip(line)
    IN  IF Count(stripped, "|") = 0 THEN FALSE
        ELSE IF SeparatorSearch(stripped) THEN TRUE
        ELSE Count(stripped, "|") >= 2

\* The extractors return <<prefix, content>>.
_extract_title_content(line) ==
    LET stripped == Strip(line)
        j == RunEnd(stripped, 1, {"#"})
        content_start == IF j = Len(stripped) THEN 0 ELSE j
    IN  << Slice(stripped, 1, content_start) \o <<" ">>,
           LStrip(Slice(stripped, content_start + 1, Len(stripped))) >>

\* The rest of the line from p as (.*) captures it: up to a newline.
DotStar(s, p) == Slice(s, p, RunEndNot(s, p, {"\n"}))

_extract_list_content(line) ==
    LET stripped == Strip(line)
        d == RunEnd(stripped, 1, Digit)
        dw == RunEnd(stripped, d + 2, Whitespace)
        t == TaskMarker(stripped)
        tw == RunEnd(stripped, t + 1, Whitespace)
        space == {k \in 1..Len(stripped) : stripped[k] = " "}
    IN  IF OrderedMarker(stripped)
        THEN <<Slice(stripped, 1, dw), DotStar(stripped, dw + 1)>>
        ELSE IF t > 0 /\ tw > t
        THEN <<Slice(stripped, 1, tw), DotStar(stripped, tw + 1)>>
        ELSE IF At(stripped, 1) \in {"-", "*", "+"} /\ space # {}
        THEN << Slice(stripped, 1, MinOf(space)),
                Slice(stripped, MinOf(space) + 1, Len(stripped)) >>
        ELSE << <<>>, stripped >>

_extract_quote_content(line) ==
    LET stripped == Strip(line)
        j == RunEnd(stripped, 1, {">"})
        content_start == IF j = Len(stripped) THEN 0 ELSE j
    IN  IF StartsWith(stripped, <<">">>)
        THEN << Slice(stripped, 1, content_start) \o <<" ">>,
                LStrip(Slice(stripped, content_start + 1, Len(stripped))) >>
        ELSE << <<>>, stripped >>

_extract_table_cells(line) ==
    LET stripped == Strip(line)
    IN  IF At(stripped, 1) # "|" \/ At(stripped, Len(stripped)) # "|"
        THEN <<>>
        ELSE Split(Slice(stripped, 2, Len(stripped) - 1), "|")

\* The cell of the output row made from a cell and its processed content.
processed_cell(cell, fixed) ==
    IF Strip(cell) # <<>> THEN <<" ">> \o fixed \o <<" ">> ELSE <<" ">>

\* The branch of _format_line a line takes: the first type that applies.
line_type(line) ==
    IF _is_title_line(line) THEN "title"
    ELSE IF _is_list_line(line) THEN "list"
    ELSE IF _is_quote_line(line) THEN "quote"
    ELSE IF _is_table_line(line) THEN "table"
    ELSE "text"

\* <<prefix, contents>>: the structure of a line _format_line keeps and the
\* texts it hands to content_spacing_fix.
line_blocks(line) ==
    Bind(line_type(line), LAMBDA type :
        IF type = "table"
        THEN Bind(_extract_table_cells(line), LAMBDA cells :
                 << <<"|">>, [n \in 1..Len(cells) |-> Strip(cells[n])] >>)
        ELSE IF type = "text" THEN << <<>>, <<line>> >>
        ELSE Bind(IF type = "title" THEN _extract_title_content(line)
                  ELSE IF type = "list" THEN _extract_list_content(line)
                  ELSE _extract_quote_content(line),
                  LAMBDA x : <<x[1], <<x[2]>> >>))

_format_line(line, bold) ==
    IF _is_protected_content(line) THEN line
    ELSE IF _is_horizontal_rule_line(line) THEN line
    ELSE Bind(line_type(line), LAMBDA type :
        IF type = "table" /\ SeparatorSearch(Strip(line)) THEN line
        ELSE Bind(line_blocks(line), LAMBDA b :
             Bind([n \in 1..Len(b[2]) |-> content_spacing_fix(b[2][n], bold)],
                  LAMBDA fixed :
                 IF type = "table"
                 THEN <<"|">>
                        \o Join([n \in 1..Len(fixed) |->
                                    processed_cell(b[2][n], fixed[n])], <<"|">>)
                        \o <<"|">>
                 ELSE b[1] \o fixed[1])))

(***************************************************************************)
(* format_content as a state machine: one step per line of the document.   *)
(***************************************************************************)
MaxLines == 2

MaxFenceLines == 4

\* The lines documents are made of: the two fence delimiters, a plain line
\* the rules change, an indented list item, titles with and without text,
\* table rows with and without outer pipes, a row with one dash-only cell,
\* a separator row, a quote, and the empty line.
PlainLine == <<"zh", "a">>

LineSet ==
    { Fence,
      MathFence,
      PlainLine,
      <<" ", " ", "-", " ", "zh", "a">>,
      <<"#", "#", "#">>,
      <<"#", "#", " ", "zh", "a">>,
      <<"|", "zh", "a", "|", "b", "|">>,
      <<"zh", "a", "|", "b", "|">>,
      <<"|", " ", "zh", "a", " ", "|", " ", "-", " ", "|">>,
      <<"|", " ", "-", " ", "|", " ", ":", "-", ":", " ", "|">>,
      <<">", " ", "zh", "a">>,
      <<>> }

FenceLineSet == {Fence, MathFence, PlainLine}

\* The sequences of at most n elements of S.
SeqsUpTo(S, n) == UNION {[1..k -> S] : k \in 0..n}

Documents ==
    {Join(ls, <<"\n">>) :
        ls \in SeqsUpTo(LineSet, MaxLines)
                  \cup SeqsUpTo(FenceLineSet, MaxFenceLines)}

NoCall ==
    /\ span = <<>>
    /\ text = <<>>
    /\ protected_content = <<>>

\* A float: <<n>> is the number n, <<>> is NaN.
NaN == <<>>

\* CodeBlockHandler.__init__ (streaming_processor.py lines 22-23).
NewHandler == [in_code_block |-> FALSE, code_block_buffer |-> <<>>]

\* No file, and the processors as their constructors leave them
\* (smart_processor.py lines 36-37, chunked_processor.py line 20).  Mb is
\* 1024 * 1024 scaled down: the bytes of a megabyte, and the characters of
\* the default chunk.
Mb == 8

NoFiles ==
    /\ files = <<>>
    /\ normal_threshold = <<1>>
    /\ chunked_threshold = <<10>>
    /\ chunk_size = Mb
    /\ code_block_handler = NewHandler
    /\ job = <<>>
    /\ frame = <<>>

\* One thread, the one that constructed the formatter: __init__ (line 45)
\* has filled the pattern cache, with the dict this thread made, dict 0.
\* The cache holds None, written <<>>, or one dict, written <<k>>.
SingleThread ==
    /\ _cached_patterns = <<0>>
    /\ threads = <<>>
    /\ calls = <<>>

\* Nothing read from standard input, nothing written to standard output.
NoStreams ==
    /\ stdin = <<>>
    /\ stdout = <<>>

\* The print calls of content_spacing_fix, by their source lines; the one
\* at line 307 is inside "if self.bold_quotes".
PrintLines ==
    <<259, 264, 273, 277, 281, 286, 290, 294, 298, 302, 307, 311, 312, 313>>

\* What print writes at those lines: every text starts with "[DEBUG]", and
\* the rest of it is left out here.
DebugTag == <<"[", "D", "E", "B", "U", "G", "]">>

\* Whether sys.stdout can encode a text.  "surr" is U+D800, a surrogate
\* code point on its own: a str may hold it, and no codec of sys.stdout
\* encodes it, so print raises UnicodeEncodeError on a text that holds it.
Encodable(s) == \A k \in 1..Len(s) : s[k] # "surr"

\* The writes of the print calls between source lines lo and hi.
prints(lo, hi, bold) ==
    LET at == SelectSeq(PrintLines,
                  LAMBDA n : n >= lo /\ n <= hi /\ (n = 307 => bold))
    IN  [k \in 1..Len(at) |-> [line |-> at[k], text |-> DebugTag]]

\* The texts _format_line calls content_spacing_fix with for a line, in
\* order: none for a line returned as it is, the cells that are not blank
\* for a table row, the content of the line otherwise.
passed_spans(line) ==
    IF _is_protected_content(line) \/ _is_horizontal_rule_line(line) THEN <<>>
    ELSE IF line_type(line) # "table" THEN line_blocks(line)[2]
    ELSE IF SeparatorSearch(Strip(line)) THEN <<>>
    ELSE SelectSeq(line_blocks(line)[2], LAMBDA cell : cell # <<>>)

\* What n calls of content_spacing_fix in a row write to standard output.
RECURSIVE line_prints(_, _)
line_prints(n, bold) ==
    IF n = 0 THEN <<>> ELSE prints(259, 313, bold) \o line_prints(n - 1, bold)

\* The calls of content_spacing_fix for a line that return: all of them, or
\* those before the first one whose text print cannot write.
returning_calls(line) ==
    LET spans == passed_spans(line)
        failing == {n \in 1..Len(spans) : ~Encodable(spans[n])}
    IN  IF failing = {} THEN Len(spans) ELSE MinOf(failing) - 1

Init ==
    /\ content \in Documents
    /\ bold_quotes \in BOOLEAN
    /\ _custom_rules = <<>>
    /\ NoStreams
    /\ SingleThread
    /\ NoFiles
    /\ lines = <<>>
    /\ idx = 0
    /\ in_code_block = FALSE
    /\ in_math_block = FALSE
    /\ formatted_lines = <<>>
    /\ result = <<>>
    /\ pc = "format_content"
    /\ NoCall

\* Lines 142-145: the split and the initial flags.
SplitLines ==
    /\ pc = "format_content"
    /\ lines' = Split(content, "\n")
    /\ idx' = 0
    /\ in_code_block' = FALSE
    /\ in_math_block' = FALSE
    /\ formatted_lines' = <<>>
    /\ pc' = "loop"
    /\ UNCHANGED <<content, result, bold_quotes, text, span,
                   protected_content, stdout, outside>>

\* A skip condition that forgets the math flag.
skip_line_code_only(code, math, line) ==
    code \/ _is_protected_content(line)

\* Line 169: the condition under which a line is copied without formatting.
skip_line(code, math, line) == code \/ math \/ _is_protected_content(line)

\* Lines 149-156: a code fence delimiter.
CodeFenceLine ==
    /\ pc = "loop" /\ idx < Len(lines)
    /\ StartsWith(Strip(lines[idx + 1]), Fence)
    /\ in_code_block' = ~in_code_block
    /\ formatted_lines' = Append(formatted_lines, lines[idx + 1])
    /\ idx' = idx + 1
    /\ UNCHANGED <<content, lines, in_math_block, result, pc, bold_quotes,
                   text, span, protected_content, stdout, outside>>

\* Lines 159-166: a math fence delimiter.
MathFenceLine ==
    /\ pc = "loop" /\ idx < Len(lines)
    /\ ~StartsWith(Strip(lines[idx + 1]), Fence)
    /\ StartsWith(Strip(lines[idx + 1]), MathFence)
    /\ in_math_block' = ~in_math_block
    /\ formatted_lines' = Append(formatted_lines, lines[idx + 1])
    /\ idx' = idx + 1
    /\ UNCHANGED <<content, lines, in_code_block, result, pc, bold_quotes,
                   text, span, protected_content, stdout, outside>>

\* Lines 169-173: a line inside a block.
SkipLine ==
    /\ pc = "loop" /\ idx < Len(lines)
    /\ ~StartsWith(Strip(lines[idx + 1]), Fence)
    /\ ~StartsWith(Strip(lines[idx + 1]), MathFence)
    /\ skip_line(in_code_block, in_math_block, lines[idx + 1])
    /\ formatted_lines' = Append(formatted_lines, lines[idx + 1])
    /\ idx' = idx + 1
    /\ UNCHANGED <<content, lines, in_code_block, in_math_block, result, pc,
                   bold_quotes, text, span, protected_content, stdout, outside>>

\* Line 175: any other line.
FormatLine ==
    /\ pc = "loop" /\ idx < Len(lines)
    /\ ~StartsWith(Strip(lines[idx + 1]), Fence)
    /\ ~StartsWith(Strip(lines[idx + 1]), MathFence)
    /\ ~skip_line(in_code_block, in_math_block, lines[idx + 1])
    /\ returning_calls(lines[idx + 1]) = Len(passed_spans(lines[idx + 1]))
    /\ formatted_lines' =
           Append(formatted_lines, _format_line(lines[idx + 1], bold_quotes))
    /\ stdout' =
           stdout \o line_prints(returning_calls(lines[idx + 1]), bold_quotes)
    /\ idx' = idx + 1
    /\ UNCHANGED <<content, lines, in_code_block, in_math_block, result, pc,
                   bold_quotes, text, span, protected_content, outside>>

\* Line 175 when print (line 259) raises inside a content_spacing_fix call
\* of _format_line: the exception leaves format_content, which has no
\* handler.
FormatLineRaises ==
    /\ pc = "loop" /\ idx < Len(lines)
    /\ ~StartsWith(Strip(lines[idx + 1]), Fence)
    /\ ~StartsWith(Strip(lines[idx + 1]), MathFence)
    /\ ~skip_line(in_code_block, in_math_block, lines[idx + 1])
    /\ returning_calls(lines[idx + 1]) < Len(passed_spans(lines[idx + 1]))
    /\ stdout' =
           stdout \o line_prints(returning_calls(lines[idx + 1]), bold_quotes)
    /\ pc' = "raised"
    /\ UNCHANGED <<content, lines, idx, in_code_block, in_math_block,
                   formatted_lines, result, bold_quotes, text, span,
                   protected_content, outside>>

\* A return that drops an empty last line before joining.
JoinLinesNoTrailing ==
    /\ pc = "loop" /\ idx = Len(lines)
    /\ result' =
           Join(IF formatted_lines # <<>>
                   /\ formatted_lines[Len(formatted_lines)] = <<>>
                THEN SubSeq(formatted_lines, 1, Len(formatted_lines) - 1)
                ELSE formatted_lines, <<"\n">>)
    /\ pc' = "done"
    /\ UNCHANGED <<content, lines, idx, in_code_block, in_math_block,
                   formatted_lines, bold_quotes, text, span,
                   protected_content, stdout, outside>>

\* Line 177: the join and the return.
JoinLines ==
    /\ pc = "loop" /\ idx = Len(lines)
    /\ result' = Join(formatted_lines, <<"\n">>)
    /\ pc' = "done"
    /\ UNCHANGED <<content, lines, idx, in_code_block, in_math_block,
                   formatted_lines, bold_quotes, text, span,
                   protected_content, stdout, outside>>

Next ==
    \/ SplitLines
    \/ CodeFenceLine
    \/ MathFenceLine
    \/ SkipLine
    \/ FormatLine
    \/ JoinLines

Spec == Init /\ [][Next]_vars

\* Malformed lines: a fence delimiter nothing closes, a lone '#', '>' and
\* '|', a row without outer pipes, an unpaired quotation mark, and two lines
\* with a character standard output cannot encode, one of them a table row
\* whose first cell can be written.
MalformedLineSet ==
    { Fence,
      MathFence,
      <<"#">>,
      <<">">>,
      <<"|">>,
      <<"zh", "a", "|", "b", "|">>,
      <<"\"", "zh", "a">>,
      <<"a", "surr">>,
      <<"|", "zh", "a", "|", "surr", "|">> }

MalformedDocuments ==
    {Join(ls, <<"\n">>) : ls \in SeqsUpTo(MalformedLineSet, MaxLines)}

InitMalformed ==
    /\ content \in MalformedDocuments
    /\ bold_quotes \in BOOLEAN
    /\ _custom_rules = <<>>
    /\ NoStreams
    /\ SingleThread
    /\ NoFiles
    /\ lines = <<>>
    /\ idx = 0
    /\ in_code_block = FALSE
    /\ in_math_block = FALSE
    /\ formatted_lines = <<>>
    /\ result = <<>>
    /\ pc = "format_content"
    /\ NoCall

NextRaising ==
    \/ Next
    \/ FormatLineRaises

SpecMalformed == InitMalformed /\ [][NextRaising]_vars

(***************************************************************************)
(* content_spacing_fix as a state machine: masking, the rewriting of the   *)
(* masked text, restoring.  RestoreMasked applies _restore_special_content *)
(* to what _protect_special_content returned, with nothing in between.     *)
(***************************************************************************)
MaxSpans == 10

CodeSpan == <<"tick", "zh", "a", "tick">>

LinkedCodeSpan == <<"[">> \o CodeSpan \o <<"]", "(", "u", ")">>

\* k code spans separated by spaces, span j of them the text of a link.
SpanRow(k, j) ==
    Join([n \in 1..k |-> IF n = j THEN LinkedCodeSpan ELSE CodeSpan], <<" ">>)

\* What the spans follow: nothing, a text the rules change, a code span that
\* holds a dollar sign before another dollar sign, and a text that reads as
\* a placeholder.
Leads ==
    { <<>>,
      <<"zh", "a", " ">>,
      <<"tick", "zh", "a", "$", "tick", " ", "$", "x", " ">>,
      PlaceholderId(0) \o <<" ">> }

Spans == {lead \o SpanRow(k, j) : lead \in Leads, k \in 0..MaxSpans, j \in 0..MaxSpans}

NoDocument ==
    /\ content = <<>>
    /\ lines = <<>>
    /\ idx = 0
    /\ in_code_block = FALSE
    /\ in_math_block = FALSE
    /\ formatted_lines = <<>>
    /\ result = <<>>

InitSpan ==
    /\ span \in Spans
    /\ bold_quotes \in BOOLEAN
    /\ text = span
    /\ protected_content = <<>>
    /\ pc = "content_spacing_fix"
    /\ _custom_rules = <<>>
    /\ NoStreams
    /\ SingleThread
    /\ NoFiles
    /\ NoDocument

\* Lines 259-264.
Protect ==
    /\ pc = "content_spacing_fix"
    /\ Encodable(text)
    /\ \E v \in {_protect_special_content(text, protected_content)} :
           /\ text' = v.text
           /\ protected_content' = v.table
    /\ stdout' = stdout \o prints(259, 264, bold_quotes)
    /\ pc' = "protected"
    /\ UNCHANGED <<content, lines, idx, in_code_block, in_math_block,
                   formatted_lines, result, bold_quotes, span, outside>>

\* _restore_special_content on the masked text as it is.
RestoreMasked ==
    /\ pc = "protected"
    /\ text' = _restore_special_content(text, protected_content)
    /\ pc' = "round_trip"
    /\ UNCHANGED <<content, lines, idx, in_code_block, in_math_block,
                   formatted_lines, result, bold_quotes, span,
                   protected_content, stdout, outside>>

\* Lines 266-307.
Rewrite ==
    /\ pc = "protected"
    /\ text' = rewrite_masked(text, bold_quotes)
    /\ stdout' = stdout \o prints(266, 307, bold_quotes)
    /\ pc' = "rewritten"
    /\ UNCHANGED <<content, lines, idx, in_code_block, in_math_block,
                   formatted_lines, result, bold_quotes, span,
                   protected_content, outside>>

\* Lines 309-315.
Restore ==
    /\ pc = "rewritten"
    /\ text' = _restore_special_content(text, protected_content)
    /\ stdout' = stdout \o prints(309, 315, bold_quotes)
    /\ pc' = "fixed"
    /\ UNCHANGED <<content, lines, idx, in_code_block, in_math_block,
                   formatted_lines, result, bold_quotes, span,
                   protected_content, outside>>

NextSpan ==
    \/ Protect
    \/ RestoreMasked
    \/ Rewrite
    \/ Restore

SpecSpan == InitSpan /\ [][NextSpan]_vars

(***************************************************************************)
(* content_spacing_fix on the texts of the rules, through a formatter made *)
(* with or without custom rules.  "ldq" and "rdq" are the double quotation *)
(* marks U+201C and U+201D; the quotation mark of the patterns in lines    *)
(* 130, 473 and 502 is U+0022.                                             *)
(***************************************************************************)
MaxWordLen == 4

\* The texts of at most MaxWordLen Chinese characters and Latin letters.
MixedWords == SeqsUpTo({"zh", "a", "B"}, MaxWordLen)

\* word.ext: extensions inside and outside the list of _protect_filenames.
WordDotExt ==
    {w \o <<".">> \o e :
        w \in {<<"a">>, <<"m", "a", "i", "n">>},
        e \in {<<"c">>, <<"1">>, <<"p", "y">>, <<"r", "s", "t">>,
               <<"c", "p", "p">>, <<"t", "x", "t">>, <<"e", "x", "t">>}}

\* Results the tests of content_spacing_fix expect (tests/test_formatter.py):
\* spaced Chinese and English, a version, two abbreviations, a comparison
\* with a unit, a date, a path, two file names, the cells of a table.
CanonicalOutputs ==
    { <<"zh", "zh", " ", "E", "n", "g", "l", "i", "s", "h">>,
      <<"v", "1", ".", "2", ".", "3">>,
      <<"U", "T", "F", "-", "8">>,
      <<"I", "S", "O", "-", "8", "8", "5", "9", "-", "1">>,
      <<">", "=", " ", "1", "0", "0", "G", "B">>,
      <<"2", "0", "2", "5", "nian", "7", "yue", "2", "4", "ri">>,
      <<"s", "r", "c", "/", "c", "o", "r", "e", "/", "f", "o", "r", "m", "a",
        "t", "t", "e", "r", ".", "p", "y">>,
      <<"m", "a", "i", "n", ".", "c", "p", "p">>,
      <<"s", "e", "t", "u", "p", ".", "p", "y">>,
      <<"zh", " ", "1">>,
      <<"zh", " ", "2", " ", "E", "n", "g", "l", "i", "s", "h">> }

\* Texts with quotation marks: pairs after a colon, at the start, between
\* characters and two in a row; a pair inside a pair, at the start and after
\* a character, and before a pair of U+0022; a mark without its partner;
\* pairs of U+0022.
QuoteTexts ==
    { <<"zh", "fwcolon", "ldq", "zh", "rdq">>,
      <<"ldq", "zh", "rdq", "zh">>,
      <<"zh", "ldq", "zh", "rdq", "zh">>,
      <<"ldq", "zh", "rdq", "zh", "ldq", "zh", "rdq">>,
      <<"ldq", "zh", "ldq", "zh", "rdq", "zh", "rdq">>,
      <<"zh", "ldq", "zh", "ldq", "zh", "rdq", "zh", "rdq">>,
      <<"ldq", "zh", "ldq", "zh", "rdq", "zh", "rdq", "\"", "zh", "\"">>,
      <<"zh", "ldq", "zh">>,
      <<"zh", "rdq", "zh">>,
      <<"zh", "\"", "zh", "\"", "zh">>,
      <<"\"", "zh", "\"", "zh">> }

\* A text print cannot write.
Unencodable == <<"a", "surr">>

\* Texts with runs of spaces, and texts with two quoted pairs side by side.
SpaceRunTexts ==
    { <<"zh", " ", " ", " ", "a">>,
      <<"A", " ", " ", "B", " ", " ", " ", "C">>,
      <<"zh", ",", " ", " ", "a">>,
      <<"x", "\"", "a", "\"", "\"", "b", "\"">>,
      <<"x", "\"", "a", "\"", " ", "\"", "b", "\"">> }

\* Latin words that begin with a token of the unit vocabulary and are not
\* in it.
LongerWords ==
    { <<"m", "e", "t", "e", "r", "s">>,
      <<"s", "e", "c">>,
      <<"G", "B", "s">>,
      <<"d", "a", "y", "s">> }

\* A digit run, with and without a space, before a unit and before a longer
\* word.
UnitTexts ==
    { <<"5">> \o sp \o w :
          sp \in {<<>>, <<" ">>},
          w \in LongerWords \cup {<<"G", "B">>, <<"m", "s">>, <<"m">>} }

Texts ==
    MixedWords \cup WordDotExt \cup CanonicalOutputs \cup QuoteTexts
        \cup {Unencodable} \cup SpaceRunTexts \cup UnitTexts

\* custom_rules as __init__ takes them: a list of rules, each a pattern and
\* a replacement.  The patterns here are literal texts.
CustomRuleLists ==
    { <<>>,
      <<[pattern |-> <<"a">>, repl |-> <<"b">>]>>,
      <<[pattern |-> <<"a">>, repl |-> <<"B">>],
        [pattern |-> <<"B">>, repl |-> <<"c">>]>> }

InitText ==
    /\ span \in Texts
    /\ bold_quotes \in BOOLEAN
    /\ _custom_rules \in CustomRuleLists
    /\ text = span
    /\ protected_content = <<>>
    /\ pc = "content_spacing_fix"
    /\ NoStreams
    /\ SingleThread
    /\ NoFiles
    /\ NoDocument

\* Line 259 when print raises: the exception leaves content_spacing_fix,
\* which has no handler.
PrintRaises ==
    /\ pc = "content_spacing_fix"
    /\ ~Encodable(text)
    /\ pc' = "raised"
    /\ UNCHANGED <<content, lines, idx, in_code_block, in_math_block,
                   formatted_lines, result, bold_quotes, text, span,
                   protected_content, stdout, outside>>

NextText ==
    \/ NextSpan
    \/ PrintRaises

SpecText == InitText /\ [][NextText]_vars

(***************************************************************************)
(* _apply_business_rules as a state machine: one step for each of the four *)
(* calls it makes, in the order of lines 327-336.  pc names the call that  *)
(* runs next.                                                              *)
(***************************************************************************)
CleanupTexts ==
    { <<">", "=", " ", "1", "0", "0", " ", "G", "B">>,
      <<">", "=", "1", "0", "0">>,
      <<"v", " ", "1", ".", "2", ".", "3">>,
      <<"v", " ", "2", ".", "0", ".", "0", "-", "b", "e", "t", "a">>,
      <<"v", "2", ".", "0", ".", "0", " ", "-", " ", "b", "e", "t", "a">>,
      <<"I", "S", "O", " ", "-", " ", "8", "8", "5", "9", " ", "-", " ", "1">>,
      <<"U", "T", "F", " ", "-", " ", "8">>,
      <<"f", "l", "a", "k", "e", " ", "8">>,
      <<"1", "0", "0", " ", "G", "B">>,
      <<"4", " ", "G", "B", " ", "+">>,
      <<"T", "o", "d", "o", " ", "-", " ", "L", "i", "s", "t">>,
      <<"b", "l", "a", "c", "k", " ">>,
      <<"r", "e", "q", "u", "i", "r", "e", "m", "e", "n", "t", "s", " ", ".", " ", "t", "x", "t">>,
      <<"s", "r", "c", " ", "/", " ", "c", "o", "r", "e", " ", "/", " ", "f", "o", "r", "m", "a", "t", "t", "e", "r", " ", ".", " ", "p", "y">>,
      <<"C", ":", " ", "\\", " ", "a">>,
      <<"a", " ", ".", " ", "p", "y">>,
      <<"2", "0", "2", "5", " ", "nian", " ", "7", " ", "yue", " ", "2", "4", " ", "ri">>,
      <<"7", " ", "yue", " ", "2", "2", " ", "ri">>,
      <<"2", "0", "2", "5", " ", "nian", " ", "7", " ", "yue", " ", "2", "4", " ", "ri", " ", "a", " ", ".", " ", "p", "y">>,
      <<"7", " ", "yue", " ", "2", " ", "ri", " ", "s", "r", "c", " ", "/", " ", "a">>,
      <<"zh", " ", "a">>,
      <<"v", " ", "1", ".", "2", " ", "-", " ", "U", "T", "F", " ", "-", " ", "8">>,
      <<"5", " ", "m", "s">>,
      <<"a", " ", "/", " ", "b">>,
      <<>> }

InitCleanup ==
    /\ span \in CleanupTexts
    /\ text = span
    /\ protected_content = <<>>
    /\ bold_quotes = FALSE
    /\ pc = "_fix_comparison_symbols"
    /\ _custom_rules = <<>>
    /\ NoStreams
    /\ SingleThread
    /\ NoFiles
    /\ NoDocument

CleanupStep(from, to) ==
    /\ pc = from
    /\ pc' = to
    /\ UNCHANGED <<content, lines, idx, in_code_block, in_math_block,
                   formatted_lines, result, bold_quotes, span,
                   protected_content, stdout, outside>>

\* Line 327.
FixComparisonSymbols ==
    /\ CleanupStep("_fix_comparison_symbols", "_fix_technical_terms")
    /\ text' = _fix_comparison_symbols(text)

\* Line 330.
FixTechnicalTerms ==
    /\ CleanupStep("_fix_technical_terms", "_fix_date_format")
    /\ text' = _fix_technical_terms(text)

\* Line 333.
FixDateFormat ==
    /\ CleanupStep("_fix_date_format", "_fix_file_paths")
    /\ text' = _fix_date_format(text)

\* Lines 336-338.
FixFilePaths ==
    /\ CleanupStep("_fix_file_paths", "cleaned")
    /\ text' = _fix_file_paths(text)

NextCleanup ==
    \/ FixComparisonSymbols
    \/ FixTechnicalTerms
    \/ FixDateFormat
    \/ FixFilePaths

SpecCleanup == InitCleanup /\ [][NextCleanup]_vars

(***************************************************************************)
(* SmartFileProcessor.set_thresholds (smart_processor.py lines 182-193)    *)
(* called any number of times on one processor.  The arguments are floats: *)
(* numbers and NaN, every comparison with NaN being false.  job holds the  *)
(* arguments of the last call.                                             *)
(***************************************************************************)
MaxThreshold == 3

Floats == {NaN} \cup {<<n>> : n \in 0..MaxThreshold}

\* a >= b and a < b on floats.
float_ge(a, b) == a # NaN /\ b # NaN /\ a[1] >= b[1]

float_lt(a, b) == a # NaN /\ b # NaN /\ a[1] < b[1]

NoFormatter ==
    /\ bold_quotes = FALSE
    /\ _custom_rules = <<>>
    /\ _cached_patterns = <<0>>
    /\ threads = <<>>
    /\ calls = <<>>
    /\ NoStreams
    /\ NoDocument
    /\ NoCall

\* __init__, lines 36-37.
InitThresholds ==
    /\ normal_threshold = <<1>>
    /\ chunked_threshold = <<10>>
    /\ job = <<>>
    /\ pc = "idle"
    /\ files = <<>>
    /\ chunk_size = Mb
    /\ code_block_handler = NewHandler
    /\ frame = <<>>
    /\ NoFormatter

ThresholdsCall(normal_mb, chunked_mb) ==
    /\ job' = [normal_mb |-> normal_mb, chunked_mb |-> chunked_mb]
    /\ UNCHANGED <<content, lines, idx, in_code_block, in_math_block,
                   formatted_lines, result, bold_quotes, text, span,
                   protected_content, stdout, _custom_rules, stdin,
                   _cached_patterns, threads, calls, files, chunk_size,
                   code_block_handler, frame>>

\* Lines 189-190 taken with normal_mb > chunked_mb only.
SetThresholdsAllowsEqual ==
    \E normal_mb, chunked_mb \in Floats :
        /\ ~(float_ge(normal_mb, chunked_mb) /\ normal_mb # chunked_mb)
        /\ normal_threshold' = normal_mb
        /\ chunked_threshold' = chunked_mb
        /\ pc' = "returned"
        /\ ThresholdsCall(normal_mb, chunked_mb)

\* Lines 189, 192-193: the test fails and both attributes are assigned.
SetThresholds ==
    \E normal_mb, chunked_mb \in Floats :
        /\ ~float_ge(normal_mb, chunked_mb)
        /\ normal_threshold' = normal_mb
        /\ chunked_threshold' = chunked_mb
        /\ pc' = "returned"
        /\ ThresholdsCall(normal_mb, chunked_mb)

\* Lines 189-190: raise ValueError.
SetThresholdsRaises ==
    \E normal_mb, chunked_mb \in Floats :
        /\ float_ge(normal_mb, chunked_mb)
        /\ pc' = "raised"
        /\ UNCHANGED <<normal_threshold, chunked_threshold>>
        /\ ThresholdsCall(normal_mb, chunked_mb)

NextThresholds ==
    \/ SetThresholds
    \/ SetThresholdsRaises

SpecThresholds == InitThresholds /\ [][NextThresholds]_vars

(***************************************************************************)
(* ChunkedFileProcessor.process_file (chunked_processor.py lines 29-65),   *)
(* one step per chunk.  files maps a path to the text of the file, job is  *)
(* the call and its arguments, frame holds the locals of process_file:     *)
(* rest is what the file object has not yet returned.  The formatter of    *)
(* the processor is MarkdownFormatter() (line 27), bold_quotes False.      *)
(***************************************************************************)
\* format_content of one document, run alone: the fold of the loop of lines
\* 147-175 over the lines from line n on.
RECURSIVE alone_from(_, _, _, _, _)
alone_from(ls, n, code, math, bold) ==
    IF n > Len(ls) THEN <<>>
    ELSE IF StartsWith(Strip(ls[n]), Fence)
         THEN <<ls[n]>> \o alone_from(ls, n + 1, ~code, math, bold)
    ELSE IF StartsWith(Strip(ls[n]), MathFence)
         THEN <<ls[n]>> \o alone_from(ls, n + 1, code, ~math, bold)
    ELSE IF skip_line(code, math, ls[n])
         THEN <<ls[n]>> \o alone_from(ls, n + 1, code, math, bold)
    ELSE <<_format_line(ls[n], bold)>> \o alone_from(ls, n + 1, code, math, bold)

format_alone(doc, bold) ==
    Bind(Split(doc, "\n"), LAMBDA ls :
        Join(alone_from(ls, 1, FALSE, FALSE, bold), <<"\n">>))

\* What format_content writes to standard output for the lines from line n
\* on: the prints of the content_spacing_fix calls of each formatted line.
RECURSIVE prints_from(_, _, _, _, _)
prints_from(ls, n, code, math, bold) ==
    IF n > Len(ls) THEN <<>>
    ELSE IF StartsWith(Strip(ls[n]), Fence)
         THEN prints_from(ls, n + 1, ~code, math, bold)
    ELSE IF StartsWith(Strip(ls[n]), MathFence)
         THEN prints_from(ls, n + 1, code, ~math, bold)
    ELSE IF skip_line(code, math, ls[n])
         THEN prints_from(ls, n + 1, code, math, bold)
    ELSE line_prints(Len(passed_spans(ls[n])), bold)
             \o prints_from(ls, n + 1, code, math, bold)

format_prints(doc, bold) ==
    Bind(Split(doc, "\n"), LAMBDA ls :
        prints_from(ls, 1, FALSE, FALSE, bold))

MaxFileLines == 3

MaxChunkSize == 12

\* The lines files are made of.
FileLineSet == {PlainLine, Fence, MathFence, <<"a">>, <<>>}

FileTexts == {Join(ls, <<"\n">>) : ls \in SeqsUpTo(FileLineSet, MaxFileLines)}

\* f.read(n) on a text file: the next n characters, fewer at the end.
read(rest, n) == SubSeq(rest, 1, IF n < Len(rest) THEN n ELSE Len(rest))

unread(rest, n) == SubSeq(rest, (IF n < Len(rest) THEN n ELSE Len(rest)) + 1, Len(rest))

\* What the format_content calls for the lines from line n on print.
RECURSIVE chunk_prints(_, _)
chunk_prints(taken, n) ==
    IF n > Len(taken) THEN <<>>
    ELSE format_prints(taken[n], FALSE) \o chunk_prints(taken, n + 1)

\* Lines 81-101: what is returned, with what the format_content calls
\* print; the line left out becomes the buffer.
_process_chunk_with_boundary(chunk, buffer, is_last) ==
    Bind(Split(buffer \o chunk, "\n"), LAMBDA all :
    Bind(IF is_last THEN all ELSE SubSeq(all, 1, Len(all) - 1), LAMBDA taken :
        [content |->
             Join([k \in 1..Len(taken) |-> format_alone(taken[k], FALSE)],
                  <<"\n">>),
         buffer |-> IF is_last THEN <<>> ELSE all[Len(all)],
         prints |-> chunk_prints(taken, 1)]))

\* The file a call reads and the file it writes: job lists the paths of
\* the calls made one after the other, n is the call that is running.
input_path == job.inputs[job.n]

output_path == job.outputs[job.n]

InitChunked ==
    /\ files \in {[p \in {"a.md"} |-> c] : c \in FileTexts}
    /\ chunk_size \in 1..MaxChunkSize
    /\ job \in {[op |-> "chunked", inputs |-> <<p>>, n |-> 1] :
                   p \in {"a.md", "b.md"}}
    /\ frame = <<>>
    /\ pc = "process_file"
    /\ normal_threshold = <<1>>
    /\ chunked_threshold = <<10>>
    /\ code_block_handler = NewHandler
    /\ NoFormatter

\* Lines 42-43: the file does not exist.
ChunkedNotFound ==
    /\ pc = "process_file"
    /\ input_path \notin DOMAIN files
    /\ pc' = "raised"
    /\ UNCHANGED <<content, lines, idx, in_code_block, in_math_block,
                   formatted_lines, result, bold_quotes, text, span,
                   protected_content, stdout, outside>>

\* Lines 45-50: the locals, the open and the first read.
ChunkedOpen ==
    /\ pc = "process_file"
    /\ input_path \in DOMAIN files
    /\ frame' = [result_lines |-> <<>>,
                 buffer |-> <<>>,
                 chunk |-> read(files[input_path], chunk_size),
                 rest |-> unread(files[input_path], chunk_size)]
    /\ pc' = "while"
    /\ UNCHANGED <<content, lines, idx, in_code_block, in_math_block,
                   formatted_lines, result, bold_quotes, text, span,
                   protected_content, stdout, _custom_rules, stdin,
                   _cached_patterns, threads, calls, files, normal_threshold,
                   chunked_threshold, chunk_size, code_block_handler, job>>

\* Lines 51-63: one round of the loop, with the next read.
ProcessChunk ==
    /\ pc = "while"
    /\ frame.chunk # <<>>
    /\ \E processed_chunk \in
              {_process_chunk_with_boundary(frame.chunk, frame.buffer,
                                            Len(frame.chunk) < chunk_size)} :
           /\ frame' = [result_lines |->
                            Append(frame.result_lines, processed_chunk.content),
                        buffer |-> processed_chunk.buffer,
                        chunk |-> read(frame.rest, chunk_size),
                        rest |-> unread(frame.rest, chunk_size)]
           /\ stdout' = stdout \o processed_chunk.prints
    /\ UNCHANGED <<content, lines, idx, in_code_block, in_math_block,
                   formatted_lines, result, pc, bold_quotes, text, span,
                   protected_content, _custom_rules, stdin,
                   _cached_patterns, threads, calls, files, normal_threshold,
                   chunked_threshold, chunk_size, code_block_handler, job>>

\* Line 65: the return, to the caller the job names.
ChunkedReturn ==
    /\ pc = "while"
    /\ frame.chunk = <<>>
    /\ result' = Concat(frame.result_lines)
    /\ pc' = IF job.op = "chunked" THEN "done" ELSE "chunked_write"
    /\ UNCHANGED <<content, lines, idx, in_code_block, in_math_block,
                   formatted_lines, bold_quotes, text, span,
                   protected_content, stdout, outside>>

NextChunked ==
    \/ ChunkedNotFound
    \/ ChunkedOpen
    \/ ProcessChunk
    \/ ChunkedReturn

SpecChunked == InitChunked /\ [][NextChunked]_vars

(***************************************************************************)
(* StreamingFileProcessor.process_file_stream (streaming_processor.py      *)
(* lines 73-96) called on one file after the other by the owner of one     *)
(* processor, one step per line read.  The input is read from the file as  *)
(* it is at the time of the read, from position frame.pos on.              *)
(***************************************************************************)
\* The paths in a directory that does not exist: open(path, "w") raises
\* FileNotFoundError for them.
NoSuchDirPaths == {"nodir/a.md", "nodir/b.md"}

\* What "for line in input_file" yields next: the characters up to and
\* including the next newline, or up to the end of the file.
next_line(s, pos) ==
    Bind({k \in pos + 1..Len(s) : s[k] = "\n"}, LAMBDA ends :
        SubSeq(s, pos + 1, IF ends = {} THEN Len(s) ELSE MinOf(ends)))

\* CodeBlockHandler.process_line_with_code_block (lines 25-58): what is
\* returned, the handler afterwards, and what format_content prints.
process_line_with_code_block(line, handler) ==
    IF StartsWith(Strip(line), Fence)
    THEN IF ~handler.in_code_block
         THEN [out |-> line,
               handler |-> [in_code_block |-> TRUE,
                            code_block_buffer |-> <<line>>],
               prints |-> <<>>]
         ELSE [out |-> Join(Append(handler.code_block_buffer, line), <<"\n">>),
               handler |-> [in_code_block |-> FALSE,
                            code_block_buffer |->
                                Append(handler.code_block_buffer, line)],
               prints |-> <<>>]
    ELSE IF handler.in_code_block
    THEN [out |-> line,
          handler |-> [in_code_block |-> TRUE,
                       code_block_buffer |->
                           Append(handler.code_block_buffer, line)],
          prints |-> <<>>]
    ELSE [out |-> format_alone(line, FALSE),
          handler |-> handler,
          prints |-> format_prints(line, FALSE)]

\* The second file of a run.
SecondTexts ==
    { Join(<<PlainLine, <<>>>>, <<"\n">>),
      Join(<<PlainLine, Fence, PlainLine, <<>>>>, <<"\n">>),
      Join(<<Fence, PlainLine, Fence, <<>>>>, <<"\n">>) }

InitStreaming ==
    /\ files \in {[p \in {"a.md", "b.md"} |-> IF p = "a.md" THEN a ELSE b] :
                     a \in FileTexts, b \in SecondTexts}
                 \cup {[p \in {"a.md"} |-> a] : a \in FileTexts}
    /\ job = [op |-> "streaming",
              inputs |-> <<"a.md", "b.md">>,
              outputs |-> <<"a.out", "b.out">>,
              n |-> 1]
    /\ code_block_handler = NewHandler
    /\ frame = <<>>
    /\ pc = "process_file_stream"
    /\ normal_threshold = <<1>>
    /\ chunked_threshold = <<10>>
    /\ chunk_size = Mb
    /\ NoFormatter

\* Lines 84-85: the input does not exist.
StreamNotFound ==
    /\ pc = "process_file_stream"
    /\ input_path \notin DOMAIN files
    /\ pc' = IF job.op = "streaming" THEN "raised" ELSE "except"
    /\ UNCHANGED <<content, lines, idx, in_code_block, in_math_block,
                   formatted_lines, result, bold_quotes, text, span,
                   protected_content, stdout, outside>>

\* Lines 87-90: both files are opened; opening the output for writing
\* creates it or empties it.
StreamOpen ==
    /\ pc = "process_file_stream"
    /\ input_path \in DOMAIN files
    /\ output_path \notin NoSuchDirPaths
    /\ files' = [p \in DOMAIN files \cup {output_path} |->
                     IF p = output_path THEN <<>> ELSE files[p]]
    /\ frame' = [pos |-> 0]
    /\ pc' = "for_line"
    /\ UNCHANGED <<content, lines, idx, in_code_block, in_math_block,
                   formatted_lines, result, bold_quotes, text, span,
                   protected_content, stdout, _custom_rules, stdin,
                   _cached_patterns, threads, calls, normal_threshold,
                   chunked_threshold, chunk_size, code_block_handler, job>>

\* Lines 91-96: one line is read, handled and written.
StreamLine ==
    /\ pc = "for_line"
    /\ frame.pos < Len(files[input_path])
    /\ \E line \in {next_line(files[input_path], frame.pos)} :
       \E processed_line \in
              {process_line_with_code_block(line, code_block_handler)} :
           /\ code_block_handler' = processed_line.handler
           /\ files' = [files EXCEPT ![output_path] = @ \o processed_line.out]
           /\ stdout' = stdout \o processed_line.prints
           /\ frame' = [pos |-> frame.pos + Len(line)]
    /\ UNCHANGED <<content, lines, idx, in_code_block, in_math_block,
                   formatted_lines, result, pc, bold_quotes, text, span,
                   protected_content, _custom_rules, stdin,
                   _cached_patterns, threads, calls, normal_threshold,
                   chunked_threshold, chunk_size, job>>

\* Line 91 at the end of the input: the files are closed and the call
\* returns; the owner goes on to its next file.
StreamClose ==
    /\ pc = "for_line"
    /\ frame.pos >= Len(files[input_path])
    /\ IF job.op # "streaming"
       THEN pc' = "success" /\ job' = job
       ELSE IF job.n < Len(job.inputs)
       THEN pc' = "process_file_stream" /\ job' = [job EXCEPT !.n = @ + 1]
       ELSE pc' = "done" /\ job' = job
    /\ UNCHANGED <<content, lines, idx, in_code_block, in_math_block,
                   formatted_lines, result, bold_quotes, text, span,
                   protected_content, stdout, _custom_rules, stdin,
                   _cached_patterns, threads, calls, files, normal_threshold,
                   chunked_threshold, chunk_size, code_block_handler, frame>>

NextStreaming ==
    \/ StreamNotFound
    \/ StreamOpen
    \/ StreamLine
    \/ StreamClose

SpecStreaming == InitStreaming /\ [][NextStreaming]_vars

(***************************************************************************)
(* batch_process_markdown_files_smart (file_handler.py lines 224-283) with *)
(* the SmartFileProcessor.process_file calls it makes (smart_processor.py  *)
(* lines 72-116).  job holds the arguments and locals of the batch call    *)
(* and of the process_file call that is running; job.original is the       *)
(* content of the files when the batch call was made, kept to state the    *)
(* properties and read by no action.                                       *)
(***************************************************************************)
TitleLine == <<"#", " ", "zh", "a">>

NormalText == Join(<<TitleLine, <<>>>>, <<"\n">>)

ChunkedText == Join(<<TitleLine, PlainLine, <<>>>>, <<"\n">>)

FencedText == Join(<<<<"#">>, Fence, PlainLine, Fence, <<>>>>, <<"\n">>)

\* A file of more than ten megabytes.
StreamingText ==
    Join(<<<<"#">>, [k \in 1..((10 * Mb) \div 3 + 1) |-> "zh"], <<>>>>,
         <<"\n">>)

BatchTexts == {NormalText, PlainLine, ChunkedText, FencedText, StreamingText}

\* os.path.getsize: the bytes of the UTF-8 encoding of a text.
getsize(s) == Len(s) + 2 * Cardinality({k \in 1..Len(s) : s[k] \in Chinese})

\* is_markdown_file (lines 20-30), on the paths of the model.
is_markdown_file(filename) == filename \in {"a.md", "b.md", "missing.md"}

\* is_valid_markdown_content (lines 33-57): the first line that is not
\* blank starts with "---" or "#"; False when the file cannot be opened.
is_valid_markdown_content(filepath) ==
    /\ filepath \in DOMAIN files
    /\ Bind(Split(files[filepath], "\n"), LAMBDA ls :
       Bind({k \in 1..Len(ls) : Strip(ls[k]) # <<>>}, LAMBDA filled :
           /\ filled # {}
           /\ \/ StartsWith(Strip(ls[MinOf(filled)]), <<"-", "-", "-">>)
              \/ StartsWith(Strip(ls[MinOf(filled)]), <<"#">>)))

\* select_processing_strategy (smart_processor.py lines 51-70), the size
\* in bytes.
select_processing_strategy(size) ==
    IF size <= normal_threshold[1] * Mb THEN "normal"
    ELSE IF size <= chunked_threshold[1] * Mb THEN "chunked"
    ELSE "streaming"

\* Lines 256-260: os.path.join(output_dir, os.path.basename(filepath)),
\* or the path itself when output_dir is None, written "".
join_basename(output_dir, filepath) ==
    IF output_dir = "" THEN filepath
    ELSE IF output_dir = "out"
         THEN (IF filepath = "a.md" THEN "out/a.md" ELSE "out/b.md")
    ELSE (IF filepath = "a.md" THEN "nodir/a.md" ELSE "nodir/b.md")

\* Line 268: filepath + ".bak"
backup_path(filepath) == IF filepath = "a.md" THEN "a.md.bak" ELSE "b.md.bak"

\* d[k] = v on a dict, and a write of a whole file.
Put(d, k, v) == [q \in DOMAIN d \cup {k} |-> IF q = k THEN v ELSE d[q]]

InitBatch ==
    /\ \E a \in BatchTexts, b \in {NormalText, FencedText},
          filepaths \in {<<"a.md">>, <<"a.md", "b.md">>, <<"c.txt", "a.md">>,
                         <<"missing.md", "a.md">>},
          output_dir \in {"", "out", "nodir"}, backup \in BOOLEAN :
           /\ files = [q \in {"a.md", "b.md", "c.txt"} |->
                          IF q = "a.md" THEN a
                          ELSE IF q = "b.md" THEN b ELSE NormalText]
           /\ job = [op |-> "batch",
                     inputs |-> filepaths,
                     outputs |-> [k \in 1..Len(filepaths) |->
                                     join_basename(output_dir, filepaths[k])],
                     n |-> 1,
                     backup |-> backup,
                     results |-> <<>>,
                     strategy |-> "None",
                     success |-> FALSE,
                     original |-> files]
    /\ normal_threshold = <<1>>
    /\ chunked_threshold = <<10>>
    /\ chunk_size = Mb
    /\ code_block_handler = NewHandler
    /\ frame = <<>>
    /\ pc = "for_filepath"
    /\ NoFormatter

BatchKeeps ==
    UNCHANGED <<content, lines, idx, in_code_block, in_math_block,
                formatted_lines, bold_quotes, text, span, protected_content,
                _custom_rules, stdin, _cached_patterns, threads, calls,
                normal_threshold, chunked_threshold, chunk_size>>

\* Lines 245-252: a path that is no Markdown file is recorded and skipped.
BatchInvalid ==
    /\ pc = "for_filepath"
    /\ job.n <= Len(job.inputs)
    /\ ~(is_markdown_file(input_path) /\ is_valid_markdown_content(input_path))
    /\ job' = [job EXCEPT
                  !.results = Put(@, input_path,
                                  [success |-> FALSE, strategy |-> "None"]),
                  !.n = @ + 1]
    /\ UNCHANGED <<result, pc, stdout, files, code_block_handler, frame>>
    /\ BatchKeeps

\* Lines 254-263 and smart_processor.py lines 83-93: the output path, the
\* call of process_file, the strategy and the result dict.
BatchCall ==
    /\ pc = "for_filepath"
    /\ job.n <= Len(job.inputs)
    /\ is_markdown_file(input_path) /\ is_valid_markdown_content(input_path)
    /\ \E strategy \in {select_processing_strategy(getsize(files[input_path]))} :
           /\ job' = [job EXCEPT !.strategy = strategy, !.success = FALSE]
           /\ pc' = IF strategy = "normal" THEN "normal_read"
                    ELSE IF strategy = "chunked" THEN "process_file"
                    ELSE "process_file_stream"
    /\ UNCHANGED <<result, stdout, files, code_block_handler, frame>>
    /\ BatchKeeps

\* smart_processor.py lines 95-97: the file is read and formatted.
NormalRead ==
    /\ pc = "normal_read"
    /\ frame' = [content |-> files[input_path],
                 formatted_content |-> format_alone(files[input_path], FALSE)]
    /\ stdout' = stdout \o format_prints(files[input_path], FALSE)
    /\ pc' = "normal_write"
    /\ UNCHANGED <<result, files, code_block_handler, job>>
    /\ BatchKeeps

\* smart_processor.py lines 98-99.
NormalWrite ==
    /\ pc = "normal_write"
    /\ output_path \notin NoSuchDirPaths
    /\ files' = Put(files, output_path, frame.formatted_content)
    /\ pc' = "success"
    /\ UNCHANGED <<result, stdout, code_block_handler, job, frame>>
    /\ BatchKeeps

\* smart_processor.py lines 104-105: what the chunked processor returned
\* is written.
ChunkedWrite ==
    /\ pc = "chunked_write"
    /\ output_path \notin NoSuchDirPaths
    /\ files' = Put(files, output_path, result)
    /\ pc' = "success"
    /\ UNCHANGED <<result, stdout, code_block_handler, job, frame>>
    /\ BatchKeeps

\* smart_processor.py lines 113-116 and file_handler.py line 264: open
\* raises for the output, process_file catches it and returns the result
\* with success False.
OpenRaises ==
    /\ pc \in {"normal_write", "chunked_write", "process_file_stream"}
    /\ output_path \in NoSuchDirPaths
    /\ job' = [job EXCEPT
                  !.results = Put(@, input_path,
                                  [success |-> FALSE, strategy |-> job.strategy])]
    /\ pc' = "backup"
    /\ UNCHANGED <<result, stdout, files, code_block_handler, frame>>
    /\ BatchKeeps

\* smart_processor.py lines 111, 116 and file_handler.py line 264.
SmartSuccess ==
    /\ pc = "success"
    /\ job' = [job EXCEPT
                  !.success = TRUE,
                  !.results = Put(@, input_path,
                                  [success |-> TRUE, strategy |-> job.strategy])]
    /\ pc' = "backup"
    /\ UNCHANGED <<result, stdout, files, code_block_handler, frame>>
    /\ BatchKeeps

\* Lines 267-273: the file is copied to the backup path.
Backup ==
    /\ pc = "backup"
    /\ job.backup /\ job.success /\ output_path = input_path
    /\ files' = Put(files, backup_path(input_path), files[input_path])
    /\ job' = [job EXCEPT !.n = @ + 1]
    /\ pc' = "for_filepath"
    /\ UNCHANGED <<result, stdout, code_block_handler, frame>>
    /\ BatchKeeps

\* Line 267 when the test fails.
NoBackup ==
    /\ pc = "backup"
    /\ ~(job.backup /\ job.success /\ output_path = input_path)
    /\ job' = [job EXCEPT !.n = @ + 1]
    /\ pc' = "for_filepath"
    /\ UNCHANGED <<result, stdout, files, code_block_handler, frame>>
    /\ BatchKeeps

\* Line 283.
BatchReturn ==
    /\ pc = "for_filepath"
    /\ job.n > Len(job.inputs)
    /\ pc' = "done"
    /\ UNCHANGED <<result, stdout, files, code_block_handler, job, frame>>
    /\ BatchKeeps

NextBatch ==
    \/ BatchInvalid
    \/ BatchCall
    \/ NormalRead
    \/ NormalWrite
    \/ ChunkedOpen
    \/ ProcessChunk
    \/ ChunkedReturn
    \/ ChunkedWrite
    \/ StreamOpen
    \/ StreamLine
    \/ StreamClose
    \/ OpenRaises
    \/ SmartSuccess
    \/ Backup
    \/ NoBackup
    \/ BatchReturn

SpecBatch == InitBatch /\ [][NextBatch]_vars

(***************************************************************************)
(* _get_patterns called by several threads before the cache is filled.     *)
(* A thread is at the test of line 58, in _create_patterns, at the         *)
(* assignment of line 59, at the return of line 60, or done.  A dict is    *)
(* named by the thread that made it.                                       *)
(***************************************************************************)
NumThreads == 3

ThreadIds == 1..NumThreads

NoFormatting ==
    /\ bold_quotes = FALSE
    /\ pc = "idle"
    /\ NoDocument
    /\ NoCall

InitThreads ==
    /\ _cached_patterns = <<>>
    /\ threads = [t \in ThreadIds |-> [pc |-> "test", made |-> <<>>, got |-> <<>>]]
    /\ calls = <<>>
    /\ _custom_rules = <<>>
    /\ NoStreams
    /\ NoFormatting
    /\ NoFiles

ThreadStep(t, to) ==
    /\ threads' = [threads EXCEPT ![t] = to]
    /\ UNCHANGED <<content, lines, idx, in_code_block, in_math_block,
                   formatted_lines, result, pc, bold_quotes, text, span,
                   protected_content, stdout, _custom_rules, stdin, calls,
                   file_state>>

\* Line 58: if cls._cached_patterns is None.
TestCache(t) ==
    /\ threads[t].pc = "test"
    /\ ThreadStep(t, [threads[t] EXCEPT
                         !.pc = IF _cached_patterns = <<>> THEN "create"
                                ELSE "return"])
    /\ UNCHANGED _cached_patterns

\* Line 59, right-hand side: cls._create_patterns() returns a new dict.
CreatePatterns(t) ==
    /\ threads[t].pc = "create"
    /\ ThreadStep(t, [threads[t] EXCEPT !.pc = "store", !.made = <<t>>])
    /\ UNCHANGED _cached_patterns

\* Line 59, the assignment to the class attribute.
StoreCache(t) ==
    /\ threads[t].pc = "store"
    /\ _cached_patterns' = threads[t].made
    /\ ThreadStep(t, [threads[t] EXCEPT !.pc = "return"])

\* Line 60: return cls._cached_patterns.
ReturnCache(t) ==
    /\ threads[t].pc = "return"
    /\ ThreadStep(t, [threads[t] EXCEPT !.pc = "done", !.got = _cached_patterns])
    /\ UNCHANGED _cached_patterns

NextThreads ==
    \E t \in ThreadIds :
        \/ TestCache(t)
        \/ CreatePatterns(t)
        \/ StoreCache(t)
        \/ ReturnCache(t)

SpecThreads == InitThreads /\ [][NextThreads]_vars

(***************************************************************************)
(* format_content called by several threads on one formatter.  calls[c]    *)
(* is the frame of call c: the locals of format_content (lines 142-147)    *)
(* and, while the call is inside content_spacing_fix, its text and its     *)
(* placeholder table (lines 261-263).  The documents are fences and plain  *)
(* text lines, for which _format_line is the call of line 241.  Standard   *)
(* output is the one stream the calls share.                               *)
(***************************************************************************)
NumCalls == 2

CallIds == 1..NumCalls

CodeLine == CodeSpan \o PlainLine

CallDocuments ==
    {Join(ls, <<"\n">>) :
        ls \in { <<PlainLine>>,
                 <<CodeLine>>,
                 <<Fence, PlainLine>>,
                 <<MathFence, PlainLine>> }}

InitCalls ==
    /\ bold_quotes \in BOOLEAN
    /\ calls \in [CallIds ->
                    [content : CallDocuments, lines : {<<>>}, idx : {0},
                     in_code_block : {FALSE}, in_math_block : {FALSE},
                     formatted_lines : {<<>>}, result : {<<>>},
                     pc : {"format_content"}, text : {<<>>},
                     protected_content : {<<>>}]]
    /\ _cached_patterns = <<0>>
    /\ threads = <<>>
    /\ _custom_rules = <<>>
    /\ NoStreams
    /\ NoFiles
    /\ pc = "idle"
    /\ NoDocument
    /\ NoCall

CallStep(c, to) ==
    /\ calls' = [calls EXCEPT ![c] = to]
    /\ UNCHANGED <<content, lines, idx, in_code_block, in_math_block,
                   formatted_lines, result, pc, bold_quotes, text, span,
                   protected_content, _custom_rules, stdin, _cached_patterns,
                   threads, file_state>>

\* The line call c is at.
line_of(c) == calls[c].lines[calls[c].idx + 1]

InLoop(c) == calls[c].pc = "loop" /\ calls[c].idx < Len(calls[c].lines)

\* Lines 142-147 in call c.
CallSplitLines(c) ==
    /\ calls[c].pc = "format_content"
    /\ CallStep(c, [calls[c] EXCEPT !.lines = Split(calls[c].content, "\n"),
                                    !.idx = 0,
                                    !.in_code_block = FALSE,
                                    !.in_math_block = FALSE,
                                    !.formatted_lines = <<>>,
                                    !.pc = "loop"])
    /\ UNCHANGED stdout

\* A code fence delimiter that toggles the flag of every call, as one flag
\* kept on the formatter would.
CallCodeFenceLineShared(c) ==
    /\ InLoop(c)
    /\ StartsWith(Strip(line_of(c)), Fence)
    /\ calls' = [d \in CallIds |->
                    IF d = c
                    THEN [calls[c] EXCEPT
                             !.in_code_block = ~calls[c].in_code_block,
                             !.formatted_lines = Append(@, line_of(c)),
                             !.idx = @ + 1]
                    ELSE [calls[d] EXCEPT
                             !.in_code_block = ~calls[c].in_code_block]]
    /\ UNCHANGED <<content, lines, idx, in_code_block, in_math_block,
                   formatted_lines, result, pc, bold_quotes, text, span,
                   protected_content, stdout, _custom_rules, stdin,
                   _cached_patterns, threads, file_state>>

\* Lines 149-156 in call c.
CallCodeFenceLine(c) ==
    /\ InLoop(c)
    /\ StartsWith(Strip(line_of(c)), Fence)
    /\ CallStep(c, [calls[c] EXCEPT
                       !.in_code_block = ~calls[c].in_code_block,
                       !.formatted_lines = Append(@, line_of(c)),
                       !.idx = @ + 1])
    /\ UNCHANGED stdout

\* Lines 159-166 in call c.
CallMathFenceLine(c) ==
    /\ InLoop(c)
    /\ ~StartsWith(Strip(line_of(c)), Fence)
    /\ StartsWith(Strip(line_of(c)), MathFence)
    /\ CallStep(c, [calls[c] EXCEPT
                       !.in_math_block = ~calls[c].in_math_block,
                       !.formatted_lines = Append(@, line_of(c)),
                       !.idx = @ + 1])
    /\ UNCHANGED stdout

Formats(c) ==
    /\ InLoop(c)
    /\ ~StartsWith(Strip(line_of(c)), Fence)
    /\ ~StartsWith(Strip(line_of(c)), MathFence)

\* Lines 169-173 in call c.
CallSkipLine(c) ==
    /\ Formats(c)
    /\ skip_line(calls[c].in_code_block, calls[c].in_math_block, line_of(c))
    /\ CallStep(c, [calls[c] EXCEPT
                       !.formatted_lines = Append(@, line_of(c)),
                       !.idx = @ + 1])
    /\ UNCHANGED stdout

\* Line 175 to line 264 in call c: a plain text line goes through
\* _format_line to content_spacing_fix, which masks it into a new table.
CallProtect(c) ==
    /\ Formats(c)
    /\ ~skip_line(calls[c].in_code_block, calls[c].in_math_block, line_of(c))
    /\ passed_spans(line_of(c)) = <<line_of(c)>>
    /\ Encodable(line_of(c))
    /\ LET masked == _protect_special_content(line_of(c), <<>>)
       IN  CallStep(c, [calls[c] EXCEPT !.text = masked.text,
                                        !.protected_content = masked.table,
                                        !.pc = "protected"])
    /\ stdout' = stdout \o prints(259, 264, bold_quotes)

\* Lines 266-307 in call c.
CallRewrite(c) ==
    /\ calls[c].pc = "protected"
    /\ CallStep(c, [calls[c] EXCEPT
                       !.text = rewrite_masked(calls[c].text, bold_quotes),
                       !.pc = "rewritten"])
    /\ stdout' = stdout \o prints(266, 307, bold_quotes)

\* Lines 309-315 and the append of line 175 in call c.
CallRestore(c) ==
    /\ calls[c].pc = "rewritten"
    /\ CallStep(c, [calls[c] EXCEPT
                       !.formatted_lines =
                           Append(@, _restore_special_content(
                                         calls[c].text,
                                         calls[c].protected_content)),
                       !.text = <<>>,
                       !.protected_content = <<>>,
                       !.idx = @ + 1,
                       !.pc = "loop"])
    /\ stdout' = stdout \o prints(309, 315, bold_quotes)

\* Line 177 in call c.
CallJoinLines(c) ==
    /\ calls[c].pc = "loop" /\ calls[c].idx = Len(calls[c].lines)
    /\ CallStep(c, [calls[c] EXCEPT
                       !.result = Join(calls[c].formatted_lines, <<"\n">>),
                       !.pc = "done"])
    /\ UNCHANGED stdout

NextCalls ==
    \E c \in CallIds :
        \/ CallSplitLines(c)
        \/ CallCodeFenceLine(c)
        \/ CallMathFenceLine(c)
        \/ CallSkipLine(c)
        \/ CallProtect(c)
        \/ CallRewrite(c)
        \/ CallRestore(c)
        \/ CallJoinLines(c)

SpecCalls == InitCalls /\ [][NextCalls]_vars

(***************************************************************************)
(* main with no input argument (markdown_spacer.py lines 131-139): the     *)
(* document is read from standard input, formatted by format_content, and  *)
(* written to standard output.  Standard input is a terminal or holds a    *)
(* document.                                                               *)
(***************************************************************************)
StdinDocuments ==
    {Join(ls, <<"\n">>) : ls \in SeqsUpTo(FenceLineSet, MaxLines)}

InitMain ==
    /\ stdin \in {[isatty |-> TRUE, data |-> <<>>]}
                    \cup {[isatty |-> FALSE, data |-> d] : d \in StdinDocuments}
    /\ stdout = <<>>
    /\ bold_quotes \in BOOLEAN
    /\ _custom_rules = <<>>
    /\ SingleThread
    /\ NoFiles
    /\ pc = "main"
    /\ NoDocument
    /\ NoCall

\* Lines 133-136: no input argument and no piped input, SystemExit(1).
ExitNoInput ==
    /\ pc = "main"
    /\ stdin.isatty
    /\ pc' = "exit"
    /\ UNCHANGED <<content, lines, idx, in_code_block, in_math_block,
                   formatted_lines, result, bold_quotes, text, span,
                   protected_content, stdout, outside>>

\* Lines 133 and 137-138: content = sys.stdin.read(), then the call of
\* format_content.
ReadStdin ==
    /\ pc = "main"
    /\ ~stdin.isatty
    /\ content' = stdin.data
    /\ pc' = "format_content"
    /\ UNCHANGED <<lines, idx, in_code_block, in_math_block, formatted_lines,
                   result, bold_quotes, text, span, protected_content, stdout,
                   outside>>

\* Line 139: sys.stdout.write(formatted_content).
WriteStdout ==
    /\ pc = "done"
    /\ stdout' = Append(stdout, [line |-> 139, text |-> result])
    /\ pc' = "exit"
    /\ UNCHANGED <<content, lines, idx, in_code_block, in_math_block,
                   formatted_lines, result, bold_quotes, text, span,
                   protected_content, outside>>

NextMain ==
    \/ ExitNoInput
    \/ ReadStdin
    \/ Next
    \/ WriteStdout

SpecMain == InitMain /\ [][NextMain]_vars

(***************************************************************************)
(* Properties of format_content, stated over the lines handled so far:     *)
(* formatted_lines[i] is the output line of lines[i].                      *)
(***************************************************************************)
IsCodeDelimiter(line) == StartsWith(Strip(line), Fence)

IsMathDelimiter(line) == StartsWith(Strip(line), MathFence)

IsDelimiter(line) == IsCodeDelimiter(line) \/ IsMathDelimiter(line)

\* Whether a fence of the kind Is(_) recognises is open before line i of ls:
\* an odd number of its delimiter lines precede line i.
OpenBefore(Is(_), ls, i) ==
    Cardinality({k \in 1..(i - 1) : Is(ls[k])}) % 2 = 1

\* Line i of ls is a delimiter line or follows an opening delimiter line of
\* some fence type that no later delimiter line of that type has closed.
InFence(ls, i) ==
    \/ IsDelimiter(ls[i])
    \/ OpenBefore(IsCodeDelimiter, ls, i)
    \/ OpenBefore(IsMathDelimiter, ls, i)

\* The lines format_content has handed to _format_line.
Formatted == {i \in 1..Len(formatted_lines) : ~InFence(lines, i)}

EndsWithNewline(s) == At(s, Len(s)) = "\n"

\* C1: every line from an opening fence delimiter line up to and including
\* the next delimiter line of that fence type, or up to the end of the
\* document when there is none, is emitted unchanged, and the loop handles
\* every line of every document, the unterminated ones included, until the
\* return.
C1_FencedLinesUnchanged ==
    /\ \A i \in 1..Len(formatted_lines) :
           InFence(lines, i) => formatted_lines[i] = lines[i]
    /\ pc = "done" =>
           \A i \in 1..Len(lines) :
               InFence(lines, i) => Split(result, "\n")[i] = lines[i]
    /\ pc = "loop" => idx <= Len(lines)
    /\ pc = "done" => idx = Len(lines)

\* A returned document whose first line opens a code fence that nothing
\* closes and whose last line is one the formatter would have changed.
C1_Witness ==
    /\ pc = "done"
    /\ Len(lines) >= 2
    /\ IsCodeDelimiter(lines[1])
    /\ \A k \in 2..Len(lines) : ~IsDelimiter(lines[k])
    /\ _format_line(lines[Len(lines)], bold_quotes) # lines[Len(lines)]
    /\ Split(result, "\n")[Len(lines)] = lines[Len(lines)]

\* C9: the output has as many newline-separated lines as the input, output
\* line i is input line i either copied or formatted, and the output ends
\* with a newline exactly when the input does.
C9_LineCountPreserved ==
    /\ Len(formatted_lines) = idx
    /\ pc = "done" =>
           /\ Len(Split(result, "\n")) = Len(Split(content, "\n"))
           /\ Count(result, "\n") = Count(content, "\n")
           /\ \A i \in 1..Len(lines) :
                  Split(result, "\n")[i] \in
                      {lines[i], _format_line(lines[i], bold_quotes)}
           /\ EndsWithNewline(result) <=> EndsWithNewline(content)

\* A returned document that ends with a newline and that formatting changed.
C9_Witness ==
    /\ pc = "done"
    /\ EndsWithNewline(content)
    /\ EndsWithNewline(result)
    /\ result # content

\* C10: while one fence is open, a delimiter line of the other fence type
\* toggles nothing: the math flag does not change while the code flag is
\* set, nor the code flag while the math flag is set.
C10_NoToggleInsideOtherFence ==
    [][/\ in_code_block => in_math_block' = in_math_block
       /\ in_math_block => in_code_block' = in_code_block]_vars

\* The leading whitespace of a list line and its marker: "-", "*" or "+",
\* or the digits and the dot of an ordered item.
ListLead(line) ==
    LET ind == RunEnd(line, 1, Whitespace)
        d == RunEnd(line, ind + 1, Digit)
    IN  Slice(line, 1, IF d > ind THEN d + 1 ELSE ind + 1)

\* C5: the output line of a list line starts with the indentation and the
\* marker of the input line.
C5_ListIndentationKept ==
    \A i \in Formatted :
        (~_is_horizontal_rule_line(lines[i]) /\ line_type(lines[i]) = "list")
            => StartsWith(formatted_lines[i], ListLead(lines[i]))

\* The run of "#" a title line starts with, and one space.
TitleLead(line) ==
    Slice(Strip(line), 1, RunEnd(Strip(line), 1, {"#"})) \o <<" ">>

\* C6: for a title line, _extract_title_content returns as prefix the run
\* of "#" and one space, and the output line starts with that prefix, also
\* when the line holds nothing but "#".
C6_TitlePrefix ==
    \A i \in Formatted :
        line_type(lines[i]) = "title"
            => /\ _extract_title_content(lines[i])[1] = TitleLead(lines[i])
               /\ StartsWith(formatted_lines[i], TitleLead(lines[i]))

\* The table rows _format_line handles as such.
IsTableRow(line) ==
    ~_is_horizontal_rule_line(line) /\ line_type(line) = "table"

\* Every cell of the row holds nothing but "-", ":" and whitespace, and some
\* cell holds a "-" or a ":".
AllCellsDashes(line) ==
    /\ \A k \in 1..Len(line) : line[k] \in {"-", ":", "|"} \cup Whitespace
    /\ \E k \in 1..Len(line) : line[k] \in {"-", ":"}

\* C7: the output of a table row that is no separator has the cells of the
\* input row split on "|", each the transform of the input cell, and a
\* leading (trailing) pipe exactly when the input has one.
C7_TableCellsKept ==
    \A i \in Formatted :
        (IsTableRow(lines[i]) /\ ~SeparatorSearch(Strip(lines[i]))) =>
            LET cells == Split(Strip(lines[i]), "|")
                out == Split(Strip(formatted_lines[i]), "|")
            IN  /\ Len(out) = Len(cells)
                /\ \A k \in 1..Len(cells) :
                       k <= Len(out) =>
                           Strip(out[k]) =
                               content_spacing_fix(Strip(cells[k]), bold_quotes)
                /\ StartsWith(Strip(formatted_lines[i]), <<"|">>)
                       <=> StartsWith(Strip(lines[i]), <<"|">>)
                /\ At(Strip(formatted_lines[i]), Len(Strip(formatted_lines[i]))) = "|"
                       <=> At(Strip(lines[i]), Len(Strip(lines[i]))) = "|"

\* C8: a table row between outer pipes is emitted as it is when all its
\* cells are dashes and colons, and otherwise every cell of it that is not
\* empty is in the output in its transformed form.
C8_SeparatorOnlyWhenAllDashes ==
    \A i \in Formatted :
        (/\ IsTableRow(lines[i])
         /\ StartsWith(Strip(lines[i]), <<"|">>)
         /\ At(Strip(lines[i]), Len(Strip(lines[i]))) = "|") =>
            IF AllCellsDashes(lines[i]) THEN formatted_lines[i] = lines[i]
            ELSE \A cell \in {Strip(c) : c \in
                                 {Split(lines[i], "|")[k] :
                                      k \in 1..Len(Split(lines[i], "|"))}} :
                     cell # <<>> =>
                         Contains(formatted_lines[i],
                                  content_spacing_fix(cell, bold_quotes))

(***************************************************************************)
(* Properties of content_spacing_fix and of the vault.                     *)
(***************************************************************************)
\* C2: restoring what masking returned gives the text that was masked.
C2_RoundTrip == pc = "round_trip" => text = span

\* C3: what content_spacing_fix returns holds no placeholder made during
\* the call, and the keys are restored in reverse insertion order.
C3_NoPlaceholderLeak ==
    pc = "fixed" =>
        /\ \A k \in 0..(Len(protected_content) - 1) :
               ~Contains(text, PlaceholderId(k))
        /\ SortedKeysDescending(Len(protected_content)) =
               [n \in 1..Len(protected_content) |-> Len(protected_content) - n]

\* The inline code spans of s: from a backtick that an even number of
\* backticks precede to the next backtick.
CodeSpans(s) ==
    {Slice(s, i, RunEndNot(s, i + 1, {"tick"}) + 1) :
        i \in {k \in 1..Len(s) :
                  /\ s[k] = "tick"
                  /\ Count(Slice(s, 1, k - 1), "tick") % 2 = 0
                  /\ Count(Slice(s, k + 1, Len(s)), "tick") > 0}}

Occurrences(s, lit) == Cardinality({i \in 1..Len(s) : IsAt(s, i, lit)})

\* C4: every inline code span of the text passed in is in the text returned
\* as it was, as many times as it was.
C4_CodeSpansUnchanged ==
    pc = "fixed" =>
        \A c \in CodeSpans(span) : Occurrences(text, c) >= Occurrences(span, c)

(***************************************************************************)
(* Properties of the rules of content_spacing_fix, stated over the text    *)
(* after the rewriting (pc = "rewritten") or after the restoring           *)
(* (pc = "fixed").                                                         *)
(***************************************************************************)
\* What masking makes of the text passed in.
Masked == _protect_special_content(span, <<>>).text

\* The masked text after the insertion rules and the cleanup pass.
Cleaned == _apply_business_rules(spacing_rules(Masked))

\* Each rule of a list applied to s, first to last: every occurrence of its
\* pattern becomes its replacement.
RECURSIVE ApplyRules(_, _)
ApplyRules(rules, s) ==
    IF rules = <<>> THEN s
    ELSE Bind(StrReplace(s, Head(rules).pattern, Head(rules).repl),
              LAMBDA t : ApplyRules(Tail(rules), t))

\* C11: the text content_spacing_fix has rewritten is the text after the
\* cleanup pass with every custom rule of the formatter applied to it, in
\* list order, and then, when bold_quotes is set, the bold-quote transform.
C11_CustomRulesApplied ==
    pc = "rewritten" =>
        text = Bind(ApplyRules(_custom_rules, Cleaned), LAMBDA t :
                   IF bold_quotes THEN _fix_chinese_quotes_bold(t) ELSE t)

\* The quotation marks of s, in order.
Quotes(s) == SelectSeq(s, LAMBDA c : c \in {"ldq", "rdq"})

\* The quotation marks of s are pairs one after the other: opening,
\* closing, opening, closing.
SiblingPairs(s) ==
    /\ Quotes(s) # <<>>
    /\ Len(Quotes(s)) % 2 = 0
    /\ \A k \in 1..Len(Quotes(s)) :
           Quotes(s)[k] = IF k % 2 = 1 THEN "ldq" ELSE "rdq"

\* s from i on with every pair of quotation marks replaced by its inner text
\* between "**" and "**", a space before (after) it when the character
\* before (after) the pair exists and is neither whitespace nor sentence
\* punctuation.
RECURSIVE BoldPairsFrom(_, _)
BoldPairsFrom(s, i) ==
    LET open == {k \in i..Len(s) : s[k] = "ldq"}
        k == MinOf(open)
        e == RunEndNot(s, k + 1, {"rdq"}) + 1
    IN  IF open = {} THEN Slice(s, i, Len(s))
        ELSE Slice(s, i, k - 1)
                 \o (IF NeedsSpace(At(s, k - 1)) THEN <<" ">> ELSE <<>>)
                 \o <<"*", "*">> \o Slice(s, k + 1, e - 1) \o <<"*", "*">>
                 \o (IF NeedsSpace(At(s, e + 1)) THEN <<" ">> ELSE <<>>)
                 \o BoldPairsFrom(s, e + 1)

\* C12: with bold_quotes set, a text whose quotation marks are pairs one
\* after the other is rewritten to the cleaned text with every pair made
\* bold, the pair at the very start included.
C12_QuotePairsBolded ==
    (pc = "rewritten" /\ bold_quotes /\ SiblingPairs(span))
        => text = BoldPairsFrom(Cleaned, 1)

\* An opening quotation mark follows another with no closing one between.
NestedQuote(s) ==
    \E i, j \in 1..Len(s) :
        /\ i < j
        /\ s[i] = "ldq" /\ s[j] = "ldq"
        /\ \A k \in (i + 1)..(j - 1) : s[k] # "rdq"

\* C13: with bold_quotes set, the bold-quote transform leaves a text as the
\* cleanup pass made it when the text holds a nested quotation, at its start
\* or after it, or a single quotation mark without its partner.
C13_NestedQuotesUntouched ==
    (pc = "rewritten" /\ bold_quotes
        /\ (NestedQuote(span) \/ Len(Quotes(span)) = 1))
        => text = Cleaned

\* s with one space between every two neighbours of which exactly one is a
\* Chinese character.
RECURSIVE Spaced(_)
Spaced(s) ==
    IF Len(s) <= 1 THEN s
    ELSE <<s[1]>>
             \o (IF (s[1] \in Chinese) # (s[2] \in Chinese)
                 THEN <<" ">> ELSE <<>>)
             \o Spaced(Tail(s))

\* C14: of a text of Chinese characters and Latin letters only,
\* content_spacing_fix returns the text with one space at every boundary
\* between a Chinese character and a Latin letter, in either order, and
\* nothing else changed.
C14_BoundarySpaces ==
    (pc = "fixed" /\ span \in MixedWords) => text = Spaced(span)

\* A returned text with a boundary in each direction.
C14_Witness ==
    /\ pc = "fixed"
    /\ span = <<"a", "zh", "B">>
    /\ text = <<"a", " ", "zh", " ", "B">>

\* C15: of a text word.ext, whatever the extension, content_spacing_fix
\* returns a text with no space after the dot.
C15_NoSpaceAfterDot ==
    (pc = "fixed" /\ span \in WordDotExt) => ~Contains(text, <<".", " ">>)

\* C16: content_spacing_fix returns a canonical output as it is.
C16_CanonicalOutputFixed ==
    (pc = "fixed" /\ span \in CanonicalOutputs) => text = span

\* C17: format_content returns for every input string: no call is left by
\* an exception.
C17_AlwaysReturns == pc # "raised"

\* The callers that have returned from _get_patterns hold one and the same
\* dict.
SameObject ==
    \A t, u \in DOMAIN threads :
        (threads[t].pc = "done" /\ threads[u].pc = "done")
            => threads[t].got = threads[u].got

\* C18: under every interleaving of first calls of _get_patterns the cache,
\* once it holds a dict, is not assigned again, and all callers are
\* returned the same dict.
C18_CacheWrittenOnce ==
    /\ [][_cached_patterns # <<>> => _cached_patterns' = _cached_patterns]_vars
    /\ []SameObject

\* C19: under every interleaving of format_content calls on one formatter,
\* each call returns what it returns when run alone on its document.
C19_CallsDoNotInterfere ==
    \A c \in DOMAIN calls :
        calls[c].pc = "done"
            => calls[c].result = format_alone(calls[c].content, bold_quotes)

\* Two calls have returned, one on a document with an open code fence and
\* one on a document with a code span, and each holds its own result.
C19_Witness ==
    /\ DOMAIN calls = CallIds
    /\ \A c \in CallIds : calls[c].pc = "done"
    /\ calls[1].content = Join(<<Fence, PlainLine>>, <<"\n">>)
    /\ calls[1].result = calls[1].content
    /\ calls[2].content = CodeLine
    /\ calls[2].result = CodeSpan \o <<"zh", " ", "a">>

\* C20: format_content writes nothing to standard output: when main has
\* read a document from standard input and has ended, standard output holds
\* one write, the formatted document.
C20_OnlyDocumentWritten ==
    (pc = "exit" /\ ~stdin.isatty)
        => stdout = <<[line |-> 139, text |-> result]>>

\* C26: of a text with no protected span, content_spacing_fix returns a text
\* with no two spaces in a row.
C26_NoSpaceRuns ==
    (pc = "fixed" /\ _protect_special_content(span, <<>>).table = <<>>)
        => ~Contains(text, <<" ", " ">>)

\* C30: a digit run before a Latin word that begins with a unit token and is
\* not one is returned with one space between the two, whether the input
\* had the space or not.
C30_LongerWordKeepsSpace ==
    \A w \in LongerWords :
        (pc = "fixed" /\ span \in {<<"5">> \o w, <<"5", " ">> \o w})
            => text = <<"5", " ">> \o w

\* The number of calls _apply_business_rules has made.
CallsMade ==
    CASE pc = "_fix_comparison_symbols" -> 0
      [] pc = "_fix_technical_terms" -> 1
      [] pc = "_fix_date_format" -> 2
      [] pc = "_fix_file_paths" -> 3
      [] pc = "cleaned" -> 4
      [] OTHER -> 5

\* Rule groups 1 to 7 applied to the text the pass was given: comparison
\* operators, version strings, abbreviations (three tokens, then two), tool
\* names, number and unit, hyphenated words, the trailing space.
GroupsOneToSeven ==
    SubAll(<<"comparison_symbols", "comparison_symbols_fix", "version_number",
             "version_hyphen", "tech_abbr_multi", "tech_abbr", "tool_name",
             "number_unit", "number_unit_plus", "english_hyphen",
             "trailing_space">>, span)

DateRules == <<"date_format", "date_format_short">>

\* C25, as documented: after groups 1 to 7 the third call is the file-path
\* cleanup and the fourth and last is the date cleanup.
C25_DocumentedOrder ==
    /\ CallsMade = 3 => text = _fix_file_paths(GroupsOneToSeven)
    /\ CallsMade = 4
           => text = SubAll(DateRules, _fix_file_paths(GroupsOneToSeven))

\* C25, amended: the groups run once each in the order comparison
\* operators, groups 2 to 7, date cleanup, and file-path cleanup last.
C25_DateBeforeFilePaths ==
    /\ CallsMade = 1
           => text = SubAll(<<"comparison_symbols", "comparison_symbols_fix">>,
                            span)
    /\ CallsMade = 2 => text = GroupsOneToSeven
    /\ CallsMade = 3 => text = SubAll(DateRules, GroupsOneToSeven)
    /\ CallsMade = 4
           => text = _fix_file_paths(SubAll(DateRules, GroupsOneToSeven))

\* The pass has ended on a text with a date and a file name: the third call
\* has glued the date and left the file name, the fourth has glued the file
\* name.
C25_Witness ==
    /\ pc = "cleaned"
    /\ span = <<"2", "0", "2", "5", " ", "nian", " ", "7", " ", "yue", " ",
                "2", "4", " ", "ri", " ", "a", " ", ".", " ", "p", "y">>
    /\ text = <<"2", "0", "2", "5", "nian", "7", "yue", "2", "4", "ri", " ",
                "a", ".", "p", "y">>

SetCallOutcome ==
    /\ float_ge(job'.normal_mb, job'.chunked_mb)
           => /\ pc' = "raised"
              /\ normal_threshold' = normal_threshold
              /\ chunked_threshold' = chunked_threshold
    /\ ~float_ge(job'.normal_mb, job'.chunked_mb)
           => /\ pc' = "returned"
              /\ normal_threshold' = job'.normal_mb
              /\ chunked_threshold' = job'.chunked_mb

each_line_formatted(doc) ==
    LET ls == Split(doc, "\n")
    IN  Join([k \in 1..Len(ls) |-> format_alone(ls[k], FALSE)], <<"\n">>)

\* C22: for every file content and every chunk_size >= 1, process_file
\* returns the newline-join of format_content(line) over the lines of the
\* file, in order.
C22_ChunksLoseNothing ==
    (pc = "done" /\ job.op = "chunked")
        => result = each_line_formatted(files[input_path])

\* C29: with the whole file in one chunk, the lines inside a fenced code
\* block or a math block are returned by process_file as they are in the
\* file.
C29_FencedLinesKeptByChunks ==
    (pc = "done" /\ job.op = "chunked" /\ chunk_size > Len(files[input_path]))
        => LET ls == Split(files[input_path], "\n")
               out == Split(result, "\n")
           IN  /\ Len(out) = Len(ls)
               /\ \A i \in 1..Len(ls) : InFence(ls, i) => out[i] = ls[i]

\* What a processor writes for a text from position pos on when its handler
\* is in the given state.
RECURSIVE stream_from(_, _, _)
stream_from(s, pos, handler) ==
    IF pos >= Len(s) THEN <<>>
    ELSE Bind(next_line(s, pos), LAMBDA line :
         Bind(process_line_with_code_block(line, handler), LAMBDA r :
             r.out \o stream_from(s, pos + Len(line), r.handler)))

\* C23: the output for the second file of a run equals what a fresh
\* processor writes for that file.
C23_SecondFileAsFresh ==
    (pc = "done" /\ job.op = "streaming")
        => files["b.out"] = stream_from(files["b.md"], 0, NewHandler)

\* The number of lines of a text, as "for line in file" counts them.
RECURSIVE line_count(_, _)
line_count(s, pos) ==
    IF pos >= Len(s) THEN 0
    ELSE 1 + line_count(s, pos + Len(next_line(s, pos)))

\* C27: what process_file_stream writes for a file has as many lines as
\* the file.
C27_EveryLineOnce ==
    (job.op = "streaming" /\ "a.out" \in DOMAIN files
         /\ (job.n > 1 \/ pc \in {"done", "raised"}))
        => line_count(files["a.out"], 0) = line_count(files["a.md"], 0)

\* The files a finished batch call has processed in place with success.
DoneInPlace ==
    {q \in DOMAIN job.results :
        /\ job.results[q].success
        /\ \E k \in 1..Len(job.inputs) :
               job.inputs[k] = q /\ job.outputs[k] = q}

\* C21: after a batch call with backup, <path>.bak holds the content the
\* file had before processing.
C21_BackupHoldsOriginal ==
    (pc = "done" /\ job.op = "batch" /\ job.backup)
        => \A q \in DoneInPlace :
               /\ backup_path(q) \in DOMAIN files
               /\ files[backup_path(q)] = job.original[q]

\* C28: after in-place processing the file holds the formatted version of
\* its original content, whatever the strategy.
C28_InPlaceKeepsContent ==
    (pc = "done" /\ job.op = "batch")
        => \A q \in DoneInPlace :
               files[q] = format_alone(job.original[q], FALSE)

====
